---------------------------- MODULE Spec2Model ----------------------------
(***************************************************************************)
(* A model of the NASA NeoWs data pipeline: the SQLite load layer          *)
(* (src/src/load.py), and the feed run that drives it                     *)
(* (src/src/pipeline.py, src/src/fetch.py, src/src/transform.py).         *)
(*                                                                         *)
(* Texts (dates, ids) are sequences of characters, compared the way        *)
(* SQLite's BINARY collation and Python's str compare them: by the codes   *)
(* of their characters, left to right.                                     *)
(* A stored row is represented by its two key columns, close_approach_date *)
(* and id; the loader never reads the other eight columns.                 *)
(***************************************************************************)
EXTENDS Integers, Sequences, FiniteSets, Bags, TLC

(***************************************************************************)
(* Bounds of the model.                                                    *)
(***************************************************************************)
\* the longest DataFrame handed to the loader
MaxBatch == 2
\* the most rows a table holds; a load that would exceed it is not taken
MaxRows == 3
\* the most asteroids in a feed, and the most close approaches of one
MaxAsteroids == 2
MaxApproaches == 2
\* how often the pipeline is run with one command line
MaxRuns == 2

(***************************************************************************)
(* Texts.                                                                  *)
(***************************************************************************)
\* Python's None and SQL's NULL: a value that no text equals
None == << "None" >>

\* the characters the model needs, with their codes
Ascii ==
    ("-" :> 45) @@ ("0" :> 48) @@ ("1" :> 49) @@ ("2" :> 50) @@ ("3" :> 51)
    @@ ("4" :> 52) @@ ("5" :> 53) @@ ("6" :> 54) @@ ("7" :> 55) @@ ("8" :> 56)
    @@ ("9" :> 57) @@ ("a" :> 97) @@ ("n" :> 110)

Digits == << "0", "1", "2", "3", "4", "5", "6", "7", "8", "9" >>

Digit(k) == << Digits[k + 1] >>

TwoDigits(k) == Digit(k \div 10) \o Digit(k % 10)

FourDigits(k) == TwoDigits(k \div 100) \o TwoDigits(k % 100)

\* a calendar date as the text "YYYY-MM-DD", zero padded
DateStr(y, m, d) ==
    FourDigits(y) \o << "-" >> \o TwoDigits(m) \o << "-" >> \o TwoDigits(d)

\* str(float("nan")): what an all-null column's min() and max() print as
NaNStr == << "n", "a", "n" >>

\* a < b for two texts: code by code, a proper prefix first
StrLess(a, b) ==
    \/ /\ Len(a) < Len(b)
       /\ \A i \in 1..Len(a) : a[i] = b[i]
    \/ \E i \in 1..Len(a) :
          /\ i <= Len(b)
          /\ Ascii[a[i]] < Ascii[b[i]]
          /\ \A j \in 1..(i - 1) : a[j] = b[j]

StrLE(a, b) == a = b \/ StrLess(a, b)

\* the half-open comparison  lo <= x < hi , which BETWEEN is not
BetweenHalfOpen(x, lo, hi) == x # None /\ StrLE(lo, x) /\ StrLess(x, hi)

\* SQL's  x BETWEEN lo AND hi : both bounds inclusive, never true of NULL
Between(x, lo, hi) == x # None /\ StrLE(lo, x) /\ StrLE(x, hi)

\* Python's truth value of an Optional[str]
Truthy(s) == s # None /\ Len(s) > 0

(***************************************************************************)
(* The values the model draws its inputs from.                             *)
(***************************************************************************)
DateSet == {DateStr(2025, 1, 1), DateStr(2025, 1, 5), DateStr(2025, 1, 10)}

IdSet == {Digit(1)}

\* rows with both key columns
KeyedRows == [close_approach_date : DateSet, id : IdSet]

\* rows in which the date, the id, or both are NULL
NullRows ==
    {[close_approach_date |-> None, id |-> Digit(1)],
     [close_approach_date |-> DateStr(2025, 1, 5), id |-> None],
     [close_approach_date |-> None, id |-> None]}

\* every row the loader is handed, by its key columns
RowU == KeyedRows \cup NullRows

TableNames == {"neows", "staging"}

Modes == {"append", "fail", "replace"}

(***************************************************************************)
(* The store: the SQLite file and its tables.  A table's rows are a bag.   *)
(***************************************************************************)
BagSize(b) == BagCardinality(b)

NoTable == [exists |-> FALSE, pk |-> FALSE, dateCol |-> FALSE, idx |-> FALSE,
            rows |-> EmptyBag]

\* the table DEFAULT_SCHEMA_SQL creates: composite primary key, index on id
SchemaTable == [exists |-> TRUE, pk |-> TRUE, dateCol |-> TRUE, idx |-> TRUE,
                rows |-> EmptyBag]

\* the table pandas creates from a DataFrame: its columns, no constraint
FrameTable(df) == [exists |-> TRUE, pk |-> FALSE, dateCol |-> df.hasDate,
                   idx |-> FALSE, rows |-> EmptyBag]

\* file: "nodir" (no warehouse directory), "absent", "present"
FreshStores == {[file |-> f, tables |-> [t \in TableNames |-> NoTable]] :
                   f \in {"nodir", "absent"}}

Rows(s, t) == s.tables[t].rows

(***************************************************************************)
(* DataFrames.  hasDate says whether the frame has a close_approach_date   *)
(* column at all; a frame without it carries NULL dates into the table.    *)
(***************************************************************************)
SeqsUpTo(S, n) == UNION {[1..k -> S] : k \in 0..n}

DataFrames(n) ==
    {[hasDate |-> TRUE, rows |-> rs] : rs \in SeqsUpTo(RowU, n)}
    \cup {[hasDate |-> FALSE, rows |-> rs] :
            rs \in SeqsUpTo({r \in RowU : r.close_approach_date = None}, n)}

\* the non-null values of the close_approach_date column
DatesOf(df) ==
    {df.rows[i].close_approach_date : i \in 1..Len(df.rows)} \ {None}

HasNullDate(df) == \E i \in 1..Len(df.rows) : df.rows[i].close_approach_date = None

MinStr(S) == CHOOSE x \in S : \A y \in S : StrLE(x, y)

MaxStr(S) == CHOOSE x \in S : \A y \in S : StrLE(y, x)

(***************************************************************************)
(* dataframe["close_approach_date"].min() and .max(), as str().            *)
(* An all-null column gives nan.  A column that mixes texts and nulls      *)
(* depends on the pandas build: with skipna honoured for texts the nulls   *)
(* are skipped; otherwise the comparison of a text with NaN raises         *)
(* TypeError.                                                              *)
(***************************************************************************)
SeriesMinMax(df, skipna) ==
    IF DatesOf(df) = {} THEN [err |-> "none", lo |-> NaNStr, hi |-> NaNStr]
    ELSE IF HasNullDate(df) /\ ~skipna
         THEN [err |-> "TypeError", lo |-> None, hi |-> None]
         ELSE [err |-> "none", lo |-> MinStr(DatesOf(df)), hi |-> MaxStr(DatesOf(df))]

(***************************************************************************)
(* ensure_database_ready: mkdir, connect, CREATE TABLE IF NOT EXISTS       *)
(* neows, CREATE INDEX IF NOT EXISTS on neows, commit.                     *)
(***************************************************************************)
\* what DROP TABLE followed by a plain CREATE TABLE would do instead
ensure_database_recreates(s) ==
    [file |-> "present", tables |-> [s.tables EXCEPT !["neows"] = SchemaTable]]

ensure_database_ready(s) ==
    [file |-> "present",
     tables |-> [s.tables EXCEPT !["neows"] =
                    IF @.exists THEN [@ EXCEPT !.idx = TRUE] ELSE SchemaTable]]

(***************************************************************************)
(* delete_date_range: one DELETE ... WHERE close_approach_date BETWEEN     *)
(* start AND end, then commit; returns cursor.rowcount.                    *)
(***************************************************************************)
delete_date_range(s, table, start, end) ==
    IF s.file = "nodir"
    THEN [store |-> s, err |-> "OperationalError", deleted |-> 0]
    ELSE LET t == s.tables[table]
             opened == [s EXCEPT !.file = "present"]
             stay == {r \in DOMAIN t.rows : ~Between(r.close_approach_date, start, end)}
             left == [r \in stay |-> t.rows[r]]
         IN IF ~t.exists \/ ~t.dateCol
            THEN [store |-> opened, err |-> "OperationalError", deleted |-> 0]
            ELSE [store |-> [opened EXCEPT !.tables[table].rows = left],
                  err |-> "none",
                  deleted |-> BagCardinality(t.rows) - BagCardinality(left)]

(***************************************************************************)
(* DataFrame.to_sql on a sqlite3 connection (pandas SQLiteTable.create and *)
(* SQLiteTable.insert).  The DDL of create() is committed at once; the     *)
(* chunks of insert() run in one transaction, rolled back on the first     *)
(* error.                                                                  *)
(***************************************************************************)
\* a uniqueness that every table would enforce, created by pandas or not
Collides_on_any_table(t, r) ==
    /\ r.close_approach_date # None
    /\ r.id # None
    /\ BagIn(r, t.rows)

\* one INSERT: a row collides when the table has the primary key and holds
\* a row with the same two key values, both non-null
Collides(t, r) ==
    /\ t.pk
    /\ r.close_approach_date # None
    /\ r.id # None
    /\ BagIn(r, t.rows)

\* the chunks pandas cuts the frame into: all rows at once without chunksize
Chunks(rs, chunk) ==
    IF Len(rs) = 0 THEN << >>
    ELSE IF chunk = 0 THEN << rs >>
    ELSE [k \in 1..((Len(rs) + chunk - 1) \div chunk) |->
            SubSeq(rs, (k - 1) * chunk + 1,
                   IF k * chunk < Len(rs) THEN k * chunk ELSE Len(rs))]

\* executemany over one chunk, in the open transaction
RECURSIVE InsertRows(_, _)
InsertRows(t, rs) ==
    IF Len(rs) = 0 THEN [table |-> t, err |-> "none"]
    ELSE IF Collides(t, Head(rs)) THEN [table |-> t, err |-> "IntegrityError"]
    ELSE InsertRows([t EXCEPT !.rows = @ (+) SetToBag({Head(rs)})], Tail(rs))

\* the loop over the chunks; the result is the transaction's working table
RECURSIVE InsertChunks(_, _)
InsertChunks(t, cs) ==
    IF Len(cs) = 0 THEN [table |-> t, err |-> "none"]
    ELSE LET one == InsertRows(t, Head(cs))
         IN IF one.err # "none" THEN one ELSE InsertChunks(one.table, Tail(cs))

\* SQLiteTable.insert under run_transaction: commit, or rollback to t
insert(t, df, chunk) ==
    IF df.hasDate /\ ~t.dateCol THEN [table |-> t, err |-> "OperationalError"]
    ELSE LET done == InsertChunks(t, Chunks(df.rows, chunk))
         IN IF done.err = "none" THEN done ELSE [table |-> t, err |-> done.err]

\* what to_sql would do if every if_exists behaved as "replace"
to_sql_always_replaces(s, table, df, mode, chunk) ==
    LET done == insert(FrameTable(df), df, chunk)
    IN [store |-> [s EXCEPT !.tables[table] = done.table], err |-> done.err]

to_sql(s, table, df, mode, chunk) ==
    LET t == s.tables[table]
    IN IF t.exists /\ mode = "fail"
       THEN [store |-> s, err |-> "ValueError"]
       ELSE LET created == IF t.exists /\ mode = "append" THEN t ELSE FrameTable(df)
                done == insert(created, df, chunk)
            IN [store |-> [s EXCEPT !.tables[table] = done.table], err |-> done.err]

(***************************************************************************)
(* load_dataframe_to_sqlite.  chunk = 0 stands for chunk_size = None.      *)
(* window is the pair handed to delete_date_range, NoWindow when no       *)
(* delete was issued.                                                      *)
(***************************************************************************)
NoWindow == << None, None >>

Failed(s, e) == [store |-> s, err |-> e, ret |-> 0, window |-> NoWindow, deleted |-> 0]

\* the other reading of a partial window: the supplied bound is kept and
\* only the missing one inferred
resolve_window_keeps_bound(df, del, start, end, skipna) ==
    IF del /\ (start = None \/ end = None)
    THEN LET mm == SeriesMinMax(df, skipna)
         IN [err |-> mm.err,
             start |-> IF start = None THEN mm.lo ELSE start,
             end |-> IF end = None THEN mm.hi ELSE end]
    ELSE [err |-> "none", start |-> start, end |-> end]

\* lines 201-204: both bounds inferred unless both were supplied
resolve_window(df, del, start, end, skipna) ==
    IF del /\ (start = None \/ end = None)
    THEN LET mm == SeriesMinMax(df, skipna)
         IN [err |-> mm.err, start |-> mm.lo, end |-> mm.hi]
    ELSE [err |-> "none", start |-> start, end |-> end]

\* lines 206-224: schema, pre-delete, insert
load_from_schema(s, df, table, mode, chunk, del, w) ==
    LET s1 == ensure_database_ready(s)
        doDelete == del /\ Truthy(w.start) /\ Truthy(w.end)
        d == IF doDelete THEN delete_date_range(s1, table, w.start, w.end)
             ELSE [store |-> s1, err |-> "none", deleted |-> 0]
        window == IF doDelete THEN << w.start, w.end >> ELSE NoWindow
        ins == to_sql(d.store, table, df, mode, chunk)
    IN IF d.err # "none"
       THEN [store |-> d.store, err |-> d.err, ret |-> 0, window |-> window,
             deleted |-> 0]
       ELSE [store |-> ins.store, err |-> ins.err,
             ret |-> IF ins.err = "none" THEN Len(df.rows) ELSE 0,
             window |-> window, deleted |-> d.deleted]

\* the other order: the schema ensured before the frame is validated
load_ensures_first(s, df, table, mode, chunk, del, start, end, skipna) ==
    IF Len(df.rows) = 0 \/ (del /\ ~df.hasDate)
    THEN Failed(ensure_database_ready(s), "ValueError")
    ELSE LET w == resolve_window(df, del, start, end, skipna)
         IN IF w.err # "none" THEN Failed(s, w.err)
            ELSE load_from_schema(s, df, table, mode, chunk, del, w)

load_dataframe_to_sqlite(s, df, table, mode, chunk, del, start, end, skipna) ==
    IF Len(df.rows) = 0 THEN Failed(s, "ValueError")
    ELSE IF del /\ ~df.hasDate THEN Failed(s, "ValueError")
    ELSE LET w == resolve_window(df, del, start, end, skipna)
         IN IF w.err # "none" THEN Failed(s, w.err)
            ELSE load_from_schema(s, df, table, mode, chunk, del, w)

(***************************************************************************)
(* The feed.  What the source holds (the sample file in demo mode, the     *)
(* NeoWs endpoint in live mode) is a JSON object: under                    *)
(* "near_earth_objects" one list of asteroids per date key, in the order   *)
(* of the keys; an asteroid has scalar fields, an "estimated_diameter"     *)
(* object and a "close_approach_data" list; an approach has scalar fields  *)
(* and the objects "relative_velocity" and "miss_distance".                *)
(*   status "missing": no sample file, or the request fails                *)
(*   status "nokey":   a JSON object without "near_earth_objects"          *)
(*   status "null":    "near_earth_objects" is null                        *)
(*   status "ok":      "near_earth_objects" is an object, neos its groups  *)
(* A scalar is a text, a number (a text behind "#"), None for null, or     *)
(* Absent when the object has no such key.  An object or list carries its  *)
(* kind: "absent", "null", or "dict" / "list".                             *)
(***************************************************************************)
Absent == << "absent" >>

\* a JSON number, written as it stands in the document
Num(t) == << "#" >> \o t

\* dict.get(key, default): the default only when the key is absent
Get(v, default) == IF v = Absent THEN default ELSE v

\* dict.get(key)
GetOrNone(v) == Get(v, None)

IsDigit(c) == \E k \in 1..10 : Digits[k] = c

DigitValue(c) == (CHOOSE k \in 1..10 : Digits[k] = c) - 1

\* the digits t read as a decimal integer
RECURSIVE Decimal(_)
Decimal(t) ==
    IF Len(t) = 0 THEN 0
    ELSE 10 * Decimal(SubSeq(t, 1, Len(t) - 1)) + DigitValue(t[Len(t)])

\* digits with at most one point among them, and at most three digits
\* behind the point; of the texts used here the only ones float() accepts
IsDecimalText(t) ==
    /\ \A i \in 1..Len(t) : IsDigit(t[i]) \/ t[i] = "."
    /\ \E i \in 1..Len(t) : IsDigit(t[i])
    /\ Cardinality({i \in 1..Len(t) : t[i] = "."}) <= 1
    /\ \A i \in 1..Len(t) : t[i] = "." => Len(t) - i <= 3

\* the number a decimal text stands for, in thousandths
Thousandths(t) ==
    LET dots == {i \in 1..Len(t) : t[i] = "."}
        dot == IF dots = {} THEN Len(t) + 1 ELSE CHOOSE i \in dots : TRUE
        whole == SubSeq(t, 1, dot - 1)
        frac == SubSeq(t, dot + 1, Len(t))
        pad == [k \in 1..(3 - Len(frac)) |-> "0"]
    IN 1000 * Decimal(whole) + Decimal(frac \o pad)

\* float() that reads an unparseable text as 0.0
float_lenient(v) ==
    IF v = None THEN [err |-> "TypeError", val |-> 0]
    ELSE LET t == IF Len(v) > 0 /\ Head(v) = "#" THEN Tail(v) ELSE v
         IN IF IsDecimalText(t) THEN [err |-> "none", val |-> Thousandths(t)]
            ELSE [err |-> "none", val |-> 0]

\* float(v): a number as it is, a text parsed, anything else an exception
float(v) ==
    IF v = None THEN [err |-> "TypeError", val |-> 0]
    ELSE LET t == IF Len(v) > 0 /\ Head(v) = "#" THEN Tail(v) ELSE v
         IN IF IsDecimalText(t) THEN [err |-> "none", val |-> Thousandths(t)]
            ELSE [err |-> "ValueError", val |-> 0]

NoFeed == [status |-> "missing", neos |-> << >>]

\* the dates the demo sample covers
DemoFirst == DateStr(2025, 1, 1)

DemoLast == DateStr(2025, 10, 31)

\* fetch_feed: DEMO_MODE is read from the environment at the call; in demo
\* mode the sample is returned whole, whatever range was asked for
fetch_feed(start, end, demo, source) ==
    IF demo /\ (StrLess(start, DemoFirst) \/ StrLess(DemoLast, end))
    THEN [err |-> "ValueError", feed |-> NoFeed]
    ELSE IF source.status = "missing"
         THEN [err |-> IF demo THEN "FileNotFoundError" ELSE "RequestException",
               feed |-> NoFeed]
         ELSE [err |-> "none", feed |-> source]

(***************************************************************************)
(* The DEMO_MODE variable of the process environment, Absent when unset,   *)
(* and the two functions that set it.                                      *)
(***************************************************************************)
Capitals == << "E", "S", "Y" >>

Smalls == << "e", "s", "y" >>

\* str.lower, on the letters the values are written with
lower(t) ==
    [i \in 1..Len(t) |->
        IF \E k \in 1..Len(Capitals) : Capitals[k] = t[i]
        THEN Smalls[CHOOSE k \in 1..Len(Capitals) : Capitals[k] = t[i]]
        ELSE t[i]]

set_demo_mode_for_process(env, enable_demo) ==
    IF enable_demo THEN << "1" >> ELSE env

set_live_mode_for_process(env, enable_live) ==
    IF enable_live THEN << "0" >> ELSE env

\* the test fetch_feed makes of os.environ at each call
demo_mode(env) ==
    lower(Get(env, << "0" >>)) \in {<< "1" >>, << "t", "r", "u", "e" >>, << "y", "e", "s" >>}

(***************************************************************************)
(* _http_get.  A reply is the status code of the response, or 0 when       *)
(* requests.get raised instead of returning one.  Waits are in             *)
(* milliseconds.                                                           *)
(***************************************************************************)
max_retries == 4

\* range(max_retries + 2)
attempt_indexes_one_more == 0..(max_retries + 1)

\* range(max_retries + 1)
attempt_indexes == 0..max_retries

\* retrying on every error status
retryable_on_any_error(status_code) == 400 <= status_code /\ status_code < 600

retryable(status_code) ==
    status_code = 429 \/ (500 <= status_code /\ status_code < 600)

backoff_seconds(attempt_index) == 500 * 2 ^ attempt_index

\* response.raise_for_status() raises
raise_for_status(status_code) == 400 <= status_code /\ status_code < 600

\* no request made yet
NoHttp == [attempt_index |-> 0, sent |-> << >>, slept |-> << >>, err |-> "none"]

\* what a run of the flattener has produced: an exception or the records
Raised(e) == [err |-> e, rows |-> << >>]

Records(rs) == [err |-> "none", rows |-> rs]

\* one piece of the loop after another: the first exception ends it
Then(r, s) ==
    IF r.err # "none" THEN r
    ELSE IF s.err # "none" THEN s
    ELSE Records(r.rows \o s.rows)

\* the keys of a record, in the order the dict literal writes them
RowColumns ==
    << "id", "name", "close_approach_date", "absolute_magnitude_h",
       "diameter_min_km", "diameter_max_km", "is_potentially_hazardous",
       "relative_velocity_kps", "miss_distance_km", "orbiting_body" >>

Zero == Num(Digit(0))

Unknown == << "Unknown" >>

\* the value the chained .get() calls hand to float(), or the exception of
\* the second .get() on a null container
Chained(container, value, default) ==
    IF container.kind = "null" THEN [err |-> "AttributeError", val |-> None]
    ELSE IF container.kind = "absent" THEN [err |-> "none", val |-> default]
    ELSE [err |-> "none", val |-> Get(value, default)]

\* the body of loop #3 with an orbiting body that is never defaulted
approach_record_plain_get(asteroid, diameter, approach) ==
    LET v == Chained(approach.relative_velocity,
                     approach.relative_velocity.kilometers_per_second, Zero)
        m == Chained(approach.miss_distance, approach.miss_distance.kilometers, Zero)
        fv == float(v.val)
        fm == float(m.val)
    IN IF v.err # "none" THEN Raised(v.err)
       ELSE IF fv.err # "none" THEN Raised(fv.err)
       ELSE IF m.err # "none" THEN Raised(m.err)
       ELSE IF fm.err # "none" THEN Raised(fm.err)
       ELSE Records(<< [id |-> GetOrNone(asteroid.id),
                        name |-> GetOrNone(asteroid.name),
                        close_approach_date |-> GetOrNone(approach.close_approach_date),
                        absolute_magnitude_h |-> GetOrNone(asteroid.absolute_magnitude_h),
                        diameter_min_km |-> GetOrNone(diameter.estimated_diameter_min),
                        diameter_max_km |-> GetOrNone(diameter.estimated_diameter_max),
                        is_potentially_hazardous |->
                            GetOrNone(asteroid.is_potentially_hazardous_asteroid),
                        relative_velocity_kps |-> fv.val,
                        miss_distance_km |-> fm.val,
                        orbiting_body |-> GetOrNone(approach.orbiting_body)] >>)

\* the body of loop #3: one record for one close approach
approach_record(asteroid, diameter, approach) ==
    LET v == Chained(approach.relative_velocity,
                     approach.relative_velocity.kilometers_per_second, Zero)
        m == Chained(approach.miss_distance, approach.miss_distance.kilometers, Zero)
        fv == float(v.val)
        fm == float(m.val)
    IN IF v.err # "none" THEN Raised(v.err)
       ELSE IF fv.err # "none" THEN Raised(fv.err)
       ELSE IF m.err # "none" THEN Raised(m.err)
       ELSE IF fm.err # "none" THEN Raised(fm.err)
       ELSE Records(<< [id |-> GetOrNone(asteroid.id),
                        name |-> GetOrNone(asteroid.name),
                        close_approach_date |-> GetOrNone(approach.close_approach_date),
                        absolute_magnitude_h |-> GetOrNone(asteroid.absolute_magnitude_h),
                        diameter_min_km |-> GetOrNone(diameter.estimated_diameter_min),
                        diameter_max_km |-> GetOrNone(diameter.estimated_diameter_max),
                        is_potentially_hazardous |->
                            GetOrNone(asteroid.is_potentially_hazardous_asteroid),
                        relative_velocity_kps |-> fv.val,
                        miss_distance_km |-> fm.val,
                        orbiting_body |-> Get(approach.orbiting_body, Unknown)] >>)

\* loop #3 over the close approaches of one asteroid
RECURSIVE ApproachLoop(_, _, _)
ApproachLoop(asteroid, diameter, approaches) ==
    IF Len(approaches) = 0 THEN Records(<< >>)
    ELSE Then(approach_record(asteroid, diameter, Head(approaches)),
              ApproachLoop(asteroid, diameter, Tail(approaches)))

\* an absent key of an object that is itself absent
NoDiameter == [estimated_diameter_min |-> Absent, estimated_diameter_max |-> Absent]

\* the body of loop #2 that gives an asteroid without approaches a record
asteroid_records_keeps_empty(asteroid) ==
    LET ed == asteroid.estimated_diameter
        cad == asteroid.close_approach_data
        diameter == IF ed.kind = "dict" /\ ed.kilometers.kind = "dict"
                    THEN [estimated_diameter_min |-> ed.kilometers.estimated_diameter_min,
                          estimated_diameter_max |-> ed.kilometers.estimated_diameter_max]
                    ELSE NoDiameter
        nothing == [close_approach_date |-> Absent,
                    relative_velocity |-> [kind |-> "absent", kilometers_per_second |-> Absent],
                    miss_distance |-> [kind |-> "absent", kilometers |-> Absent],
                    orbiting_body |-> Absent]
    IN IF ed.kind = "null" \/ (ed.kind = "dict" /\ ed.kilometers.kind = "null")
       THEN Raised("AttributeError")
       ELSE IF cad.kind = "null" THEN Raised("TypeError")
       ELSE IF cad.kind = "absent" \/ Len(cad.items) = 0
            THEN approach_record(asteroid, diameter, nothing)
       ELSE ApproachLoop(asteroid, diameter, cad.items)

\* the body of loop #2: the records of one asteroid
asteroid_records(asteroid) ==
    LET ed == asteroid.estimated_diameter
        cad == asteroid.close_approach_data
        diameter == IF ed.kind = "dict" /\ ed.kilometers.kind = "dict"
                    THEN [estimated_diameter_min |-> ed.kilometers.estimated_diameter_min,
                          estimated_diameter_max |-> ed.kilometers.estimated_diameter_max]
                    ELSE NoDiameter
    IN IF ed.kind = "null" \/ (ed.kind = "dict" /\ ed.kilometers.kind = "null")
       THEN Raised("AttributeError")
       ELSE IF cad.kind = "null" THEN Raised("TypeError")
       ELSE IF cad.kind = "absent" THEN Records(<< >>)
       ELSE ApproachLoop(asteroid, diameter, cad.items)

\* loop #2 over the asteroids of one date key
RECURSIVE AsteroidLoop(_)
AsteroidLoop(asteroids) ==
    IF Len(asteroids) = 0 THEN Records(<< >>)
    ELSE Then(asteroid_records(Head(asteroids)), AsteroidLoop(Tail(asteroids)))

\* loop #1 over the date keys, in the order of the document
RECURSIVE GroupLoop(_)
GroupLoop(groups) ==
    IF Len(groups) = 0 THEN Records(<< >>)
    ELSE Then(IF Head(groups).kind = "null" THEN Raised("TypeError")
              ELSE AsteroidLoop(Head(groups).asteroids),
              GroupLoop(Tail(groups)))

\* a sorts strictly before b: ascending texts, nulls last
DateBefore(a, b) == a # None /\ (b = None \/ StrLess(a, b))

\* r put into the sorted rs, behind the rows of its own date
RECURSIVE InsertSorted(_, _)
InsertSorted(rs, r) ==
    IF Len(rs) = 0 THEN << r >>
    ELSE IF DateBefore(r.close_approach_date, Head(rs).close_approach_date)
         THEN << r >> \o rs
         ELSE << Head(rs) >> \o InsertSorted(Tail(rs), r)

\* DataFrame.sort_values(by = ["close_approach_date"])
RECURSIVE sort_values(_)
sort_values(rs) ==
    IF Len(rs) = 0 THEN << >>
    ELSE InsertSorted(sort_values(SubSeq(rs, 1, Len(rs) - 1)), rs[Len(rs)])

\* a flattener that hands its records back in chronological order
extract_close_approaches_sorted(raw) ==
    IF raw.status = "null" THEN Raised("AttributeError")
    ELSE IF raw.status # "ok" THEN Records(<< >>)
    ELSE LET r == GroupLoop(raw.neos)
         IN IF r.err # "none" THEN r ELSE Records(sort_values(r.rows))

\* extract_close_approaches: one record per close approach, in the order
\* of the loops; without the key the default {} gives no record
extract_close_approaches(raw) ==
    IF raw.status = "null" THEN Raised("AttributeError")
    ELSE IF raw.status # "ok" THEN Records(<< >>)
    ELSE GroupLoop(raw.neos)

\* a DataFrame: its column labels and its rows; err is the exception the
\* call that was to build it raised instead
NoFrame(e) == [err |-> e, columns |-> << >>, rows |-> << >>]

\* transform_to_dataframe without its sort
transform_to_dataframe_unsorted(raw) ==
    LET flat == extract_close_approaches(raw)
    IN IF flat.err # "none" THEN NoFrame(flat.err)
       ELSE IF Len(flat.rows) = 0 THEN NoFrame("none")
       ELSE [err |-> "none", columns |-> RowColumns, rows |-> flat.rows]

\* transform_to_dataframe: pd.DataFrame([]) has no columns at all, and is
\* not sorted
transform_to_dataframe(raw) ==
    LET flat == extract_close_approaches(raw)
    IN IF flat.err # "none" THEN NoFrame(flat.err)
       ELSE IF Len(flat.rows) = 0 THEN NoFrame("none")
       ELSE [err |-> "none", columns |-> RowColumns, rows |-> sort_values(flat.rows)]

\* the frame as the load reads it: whether it has the date column, and the
\* key columns of its rows
LoadFrame(df) ==
    [hasDate |-> \E i \in 1..Len(df.columns) : df.columns[i] = "close_approach_date",
     rows |-> [i \in 1..Len(df.rows) |->
                 [close_approach_date |-> df.rows[i].close_approach_date,
                  id |-> df.rows[i].id]]]

(***************************************************************************)
(* Dates on the command line.                                              *)
(***************************************************************************)
IsLeap(y) == (y % 4 = 0 /\ y % 100 # 0) \/ y % 400 = 0

DaysIn(y, m) ==
    IF m = 2 THEN (IF IsLeap(y) THEN 29 ELSE 28)
    ELSE IF m \in {4, 6, 9, 11} THEN 30 ELSE 31

AllDigits(t) == \A i \in 1..Len(t) : IsDigit(t[i])

NoDate(e) == [err |-> e, y |-> 0, m |-> 0, d |-> 0]

\* parse_date: strptime(date_str, "%Y-%m-%d") reads four digits, a dash,
\* one or two digits, a dash, one or two digits, and takes only a day that
\* the calendar has; every failure is a ValueError
parse_date(t) ==
    LET dashes == {i \in 1..Len(t) : t[i] = "-"}
    IN IF Cardinality(dashes) # 2 THEN NoDate("ValueError")
       ELSE LET i == CHOOSE k \in dashes : \A l \in dashes : k <= l
                j == CHOOSE k \in dashes : \A l \in dashes : l <= k
                ys == SubSeq(t, 1, i - 1)
                ms == SubSeq(t, i + 1, j - 1)
                ds == SubSeq(t, j + 1, Len(t))
            IN IF \/ Len(ys) # 4 \/ ~AllDigits(ys)
                  \/ Len(ms) \notin {1, 2} \/ ~AllDigits(ms)
                  \/ Len(ds) \notin {1, 2} \/ ~AllDigits(ds)
               THEN NoDate("ValueError")
               ELSE IF \/ Decimal(ys) < 1
                       \/ Decimal(ms) \notin 1..12
                       \/ Decimal(ds) \notin 1..DaysIn(Decimal(ys), Decimal(ms))
                    THEN NoDate("ValueError")
                    ELSE [err |-> "none", y |-> Decimal(ys), m |-> Decimal(ms),
                          d |-> Decimal(ds)]

\* the digits of a number below 10000, without leading zeros
Unpadded(k) ==
    IF k < 10 THEN Digit(k)
    ELSE IF k < 100 THEN TwoDigits(k)
    ELSE IF k < 1000 THEN Digit(k \div 100) \o TwoDigits(k % 100)
    ELSE FourDigits(k)

\* strftime("%Y-%m-%d"): the C library decides whether a year below 1000 is
\* written with leading zeros
strftime(date, padded) ==
    (IF padded THEN FourDigits(date.y) ELSE Unpadded(date.y))
       \o << "-" >> \o TwoDigits(date.m) \o << "-" >> \o TwoDigits(date.d)

\* datetime comparison start_date > end_date
DateAfter(a, b) ==
    \/ a.y > b.y
    \/ a.y = b.y /\ a.m > b.m
    \/ a.y = b.y /\ a.m = b.m /\ a.d > b.d

NoRange(e) == [err |-> e, start |-> None, end |-> None]

\* validate_date_range
validate_date_range(start_str, end_str, padded) ==
    LET start_date == parse_date(start_str)
        end_date == parse_date(end_str)
    IN IF start_date.err # "none" \/ end_date.err # "none" THEN NoRange("ValueError")
       ELSE IF DateAfter(start_date, end_date) THEN NoRange("ValueError")
       ELSE [err |-> "none", start |-> strftime(start_date, padded),
             end |-> strftime(end_date, padded)]

(***************************************************************************)
(* State.  db is the store.  call is the call of the load layer that has   *)
(* just returned, with its arguments and its outcome, until the caller has *)
(* taken the result (op = "none").  first is the load that a reload        *)
(* repeats, with its arguments and its outcome.  run is one process        *)
(* running the feed pipeline: its arguments, its environment, its locals   *)
(* and its position in run_feed_mode.  run.stages lists the stages the     *)
(* process has entered, run.written is the local written_rows once it is   *)
(* bound, and run.before is the store and the CSV file as the process      *)
(* found them.  run.env is DEMO_MODE in the environment of the process,    *)
(* run.imported the flag config.py made of it when it was imported, and    *)
(* run.http the locals of _http_get with the requests it has sent and the  *)
(* waits it has made.                                                      *)
(***************************************************************************)
VARIABLES db, call, first, run

vars == << db, call, first, run >>

EmptyFrame == [hasDate |-> TRUE, rows |-> << >>]

NoCall == [op |-> "none", table |-> "neows", mode |-> "append", del |-> FALSE,
           df |-> EmptyFrame, start |-> None, end |-> None,
           err |-> "none", ret |-> 0, window |-> NoWindow]

\* no CSV written yet
NoCsv == [written |-> FALSE, frame |-> NoFrame("none")]

\* no pipeline process
NoRun == [pc |-> "off", start |-> None, end |-> None, demo |-> FALSE,
          source |-> NoFeed, raw |-> NoFeed, flat |-> Records(<< >>),
          frame |-> NoFrame("none"), csv |-> NoCsv, exits |-> << >>,
          args |-> [mode |-> None, start |-> None, end |-> None],
          range |-> NoRange("none"), outcomes |-> {},
          stages |-> << >>, written |-> << >>, env |-> Absent, imported |-> FALSE,
          http |-> NoHttp,
          before |-> [db |-> [file |-> "absent",
                              tables |-> [t \in TableNames |-> NoTable]],
                      csv |-> NoCsv]]

\* no load to repeat
NoFirst == [op |-> "none", df |-> EmptyFrame, mode |-> "append", chunk |-> 0,
            del |-> FALSE, start |-> None, end |-> None, skipna |-> TRUE,
            err |-> "none"]

EnsureDatabaseReady ==
    /\ call.op = "none"
    /\ db' = ensure_database_ready(db)
    /\ call' = [NoCall EXCEPT !.op = "ensure"]

DeleteDateRange(table, start, end) ==
    \E r \in {delete_date_range(db, table, start, end)} :
       /\ db' = r.store
       /\ call' = [NoCall EXCEPT !.op = "delete", !.table = table, !.start = start,
                                 !.end = end, !.err = r.err, !.ret = r.deleted]

LoadDataframeToSqlite(df, table, mode, chunk, del, start, end, skipna) ==
    \E r \in {load_dataframe_to_sqlite(db, df, table, mode, chunk, del, start, end, skipna)} :
       /\ BagSize(Rows(r.store, table)) <= MaxRows
       /\ db' = r.store
       /\ call' = [op |-> "load", table |-> table, mode |-> mode, del |-> del,
                   df |-> df, start |-> start, end |-> end,
                   err |-> r.err, ret |-> r.ret, window |-> r.window]

\* the caller takes the result of the call
Return ==
    /\ call.op # "none"
    /\ call' = NoCall
    /\ UNCHANGED db

(***************************************************************************)
(* run_feed_mode, stage by stage.  The exit code of a finished run is      *)
(* appended to run.exits, and joins run.outcomes together with the outcome *)
(* that the return statement taken stands for.                             *)
(***************************************************************************)
Finish(outcome, code) ==
    [run EXCEPT !.pc = "done", !.exits = Append(@, code),
                !.outcomes = @ \cup {<< outcome, code >>}]

\* the fetch stage without its check of the key
FetchStage_ignores_missing_key ==
    /\ run.pc = "fetch"
    /\ \E r \in {fetch_feed(run.start, run.end, run.demo, run.source)} :
          run' = IF r.err # "none"
                 THEN [Finish("fetch-stage failure", 3) EXCEPT
                          !.stages = Append(@, "fetch")]
                 ELSE [run EXCEPT !.pc = "transform", !.raw = r.feed,
                                  !.stages = Append(@, "fetch")]
    /\ UNCHANGED << db, call, first >>

\* 1) fetch: any exception, or a response without the key, ends the run
FetchStage ==
    /\ run.pc = "fetch"
    /\ \E r \in {fetch_feed(run.start, run.end, run.demo, run.source)} :
          run' = IF r.err # "none" \/ r.feed.status = "nokey"
                 THEN [Finish("fetch-stage failure", 3) EXCEPT
                          !.stages = Append(@, "fetch")]
                 ELSE [run EXCEPT !.pc = "transform", !.raw = r.feed,
                                  !.stages = Append(@, "fetch")]
    /\ UNCHANGED << db, call, first >>

\* what save_dataframe_to_csv can do: write the file, or raise from mkdir
\* (the file is as it was) or from to_csv (the file may be cut short)
Saves == {"written", "mkdir raises", "to_csv raises"}

\* a CSV file that a failed write has left cut short
CutShort == [written |-> TRUE, frame |-> NoFrame("cut short")]

\* 2) transform and CSV: any exception ends the run; the file is written
\* even for an empty frame
TransformStage ==
    /\ run.pc = "transform"
    /\ \E df \in {transform_to_dataframe(run.raw)}, saved \in Saves :
          run' = IF df.err # "none"
                 THEN [Finish("transform-stage failure", 4) EXCEPT
                          !.stages = Append(@, "transform")]
                 ELSE IF saved # "written"
                 THEN [Finish("transform-stage failure", 4) EXCEPT
                          !.stages = @ \o << "transform", "csv" >>, !.frame = df,
                          !.csv = IF saved = "mkdir raises" THEN @ ELSE CutShort]
                 ELSE [run EXCEPT !.pc = "load", !.frame = df,
                                  !.csv = [written |-> TRUE, frame |-> df],
                                  !.stages = @ \o << "transform", "csv" >>]
    /\ UNCHANGED << db, call, first >>

\* a load stage that takes the CSV file back when the load raises
LoadStage_removes_csv ==
    /\ run.pc = "load"
    /\ \E r \in {load_dataframe_to_sqlite(db, LoadFrame(run.frame), "neows", "append", 0,
                                          TRUE, run.start, run.end, TRUE)} :
          /\ db' = r.store
          /\ run' = IF r.err = "none"
                    THEN [Finish("success", 0) EXCEPT
                             !.stages = Append(@, "load"), !.written = << r.ret >>]
                    ELSE [Finish("load-stage failure", 5) EXCEPT
                             !.stages = Append(@, "load"), !.csv = run.before.csv]
    /\ UNCHANGED << call, first >>

\* 3) load: append, pre-delete of the requested range, default chunk size
LoadStage ==
    /\ run.pc = "load"
    /\ \E r \in {load_dataframe_to_sqlite(db, LoadFrame(run.frame), "neows", "append", 0,
                                          TRUE, run.start, run.end, TRUE)} :
          /\ db' = r.store
          /\ run' = IF r.err = "none"
                    THEN [Finish("success", 0) EXCEPT
                             !.stages = Append(@, "load"), !.written = << r.ret >>]
                    ELSE [Finish("load-stage failure", 5) EXCEPT
                             !.stages = Append(@, "load")]
    /\ UNCHANGED << call, first >>

\* the same command line run again, against the same source
RunAgain ==
    /\ run.pc = "done"
    /\ Len(run.exits) < MaxRuns
    /\ run' = [run EXCEPT !.pc = "fetch", !.raw = NoFeed, !.frame = NoFrame("none"),
                          !.stages = << >>, !.written = << >>,
                          !.before = [db |-> db, csv |-> run.csv]]
    /\ UNCHANGED << db, call, first >>

\* main that starts run_feed_mode on the dates as given, unvalidated
Main_validates_nothing ==
    /\ run.pc = "main"
    /\ run' = IF run.args.mode = "feed"
              THEN IF ~Truthy(run.args.start) \/ ~Truthy(run.args.end)
                   THEN Finish("missing required arguments", 2)
                   ELSE [run EXCEPT !.pc = "fetch", !.start = run.args.start,
                                    !.end = run.args.end]
              ELSE IF run.args.mode = "browse"
                   THEN Finish("not-implemented mode", 6)
                   ELSE Finish("usage error", 2)
    /\ UNCHANGED << db, call, first >>

\* main: parse_args ends the process with a usage error on a mode that is
\* not among the choices; then the mode decides, and feed mode needs both
\* dates and a valid range before run_feed_mode starts
Main ==
    /\ run.pc = "main"
    /\ \E padded \in BOOLEAN :
          \E r \in {validate_date_range(run.args.start, run.args.end, padded)} :
             run' = IF run.args.mode = "feed"
                    THEN IF ~Truthy(run.args.start) \/ ~Truthy(run.args.end)
                         THEN Finish("missing required arguments", 2)
                         ELSE IF r.err # "none"
                              THEN Finish("invalid date range", 2)
                              ELSE [run EXCEPT !.pc = "fetch", !.range = r,
                                               !.start = r.start, !.end = r.end]
                    ELSE IF run.args.mode = "browse"
                         THEN Finish("not-implemented mode", 6)
                         ELSE Finish("usage error", 2)
    /\ UNCHANGED << db, call, first >>

(***************************************************************************)
(* The fetch stage step by step.  The setters change DEMO_MODE between     *)
(* runs and leave in call which of them was called and with what;          *)
(* fetch_feed tests the variable when it is called and takes the sample    *)
(* or the HTTP client; _http_get sends a request, and waits and goes       *)
(* round after a retryable status; whatever fetch_feed returns or raises   *)
(* goes to the try statement of the fetch stage.                           *)
(***************************************************************************)
SetDemoModeForProcess(enable_demo) ==
    /\ run.pc \in {"off", "done"}
    /\ run' = [run EXCEPT !.env = set_demo_mode_for_process(@, enable_demo)]
    /\ call' = [op |-> "set_demo_mode_for_process", enable |-> enable_demo]
    /\ UNCHANGED << db, first >>

SetLiveModeForProcess(enable_live) ==
    /\ run.pc \in {"off", "done"}
    /\ run' = [run EXCEPT !.env = set_live_mode_for_process(@, enable_live)]
    /\ call' = [op |-> "set_live_mode_for_process", enable |-> enable_live]
    /\ UNCHANGED << db, first >>

\* the fetch stage takes what fetch_feed returned or raised
Returned(r, http) ==
    IF r.err # "none" \/ r.feed.status = "nokey"
    THEN [Finish("fetch-stage failure", 3) EXCEPT !.http = [http EXCEPT !.err = r.err]]
    ELSE [run EXCEPT !.pc = "transform", !.raw = r.feed, !.http = http]

\* fetch_feed that goes by the flag config.py read when it was imported
FetchFeed_reads_config ==
    /\ run.pc = "fetch"
    /\ run' = [run EXCEPT !.demo = run.imported,
                          !.pc = IF run.imported THEN "sample" ELSE "request",
                          !.http = NoHttp, !.stages = Append(@, "fetch")]
    /\ call' = NoCall
    /\ UNCHANGED << db, first >>

FetchFeed ==
    /\ run.pc = "fetch"
    /\ run' = [run EXCEPT !.demo = demo_mode(run.env),
                          !.pc = IF demo_mode(run.env) THEN "sample" ELSE "request",
                          !.http = NoHttp, !.stages = Append(@, "fetch")]
    /\ call' = NoCall
    /\ UNCHANGED << db, first >>

\* the demo branch: the range check and the sample file
ReadSample ==
    /\ run.pc = "sample"
    /\ run' = Returned(fetch_feed(run.start, run.end, TRUE, run.source), run.http)
    /\ UNCHANGED << db, call, first >>

\* one pass of the loop of _http_get up to the test of the status
Request(reply) ==
    /\ run.pc = "request"
    /\ \E http \in {[run.http EXCEPT !.sent = Append(@, reply)]} :
          run' = IF reply = 0
                 THEN Returned([err |-> "RequestException", feed |-> NoFeed], http)
                 ELSE IF retryable(reply)
                 THEN [run EXCEPT !.pc = "backoff", !.http = http]
                 ELSE IF raise_for_status(reply)
                 THEN Returned([err |-> "HTTPError", feed |-> NoFeed], http)
                 ELSE Returned(fetch_feed(run.start, run.end, FALSE, run.source), http)
    /\ UNCHANGED << db, call, first >>

\* the wait after a retryable status, then the next pass or, out of
\* passes, the RuntimeError
Backoff ==
    /\ run.pc = "backoff"
    /\ \E http \in {[run.http EXCEPT
                         !.slept = Append(@, backoff_seconds(run.http.attempt_index)),
                         !.attempt_index = @ + 1]} :
          run' = IF http.attempt_index \in attempt_indexes
                 THEN [run EXCEPT !.pc = "request", !.http = http]
                 ELSE Returned([err |-> "RuntimeError", feed |-> NoFeed], http)
    /\ UNCHANGED << db, call, first >>

(***************************************************************************)
(* load_dataframe_to_sqlite commit by commit, for processes that call it   *)
(* on the same file at the same time.  call then maps each process to its  *)
(* call: its position, its frame, its window and its locals.  Each of      *)
(* ensure_database_ready, delete_date_range and to_sql opens its own       *)
(* connection and commits or rolls back on its own, and SQLite lets one    *)
(* writer in at a time, so each is one step; raced records that the other  *)
(* call stood between its pre-delete and its insert when this one          *)
(* inserted.  The calls are the pipeline's: table neows, append,           *)
(* pre-delete on, default chunk size.                                      *)
(***************************************************************************)
Procs == {1, 2}

Other(p) == CHOOSE q \in Procs : q # p

NoLoad == [pc |-> "idle", df |-> EmptyFrame, start |-> None, end |-> None,
           err |-> "none", ret |-> 0, deleted |-> 0, raced |-> FALSE]

\* lines 193-204: the checks of the frame and the window
CallLoad(p, df, start, end) ==
    /\ call[p].pc = "idle"
    /\ \E w \in {resolve_window(df, TRUE, start, end, TRUE)} :
          call' = [call EXCEPT ![p] =
                      IF Len(df.rows) = 0 \/ ~df.hasDate \/ w.err # "none"
                      THEN [NoLoad EXCEPT !.pc = "raised", !.df = df, !.err = "ValueError"]
                      ELSE [NoLoad EXCEPT !.pc = "ensure", !.df = df,
                                          !.start = w.start, !.end = w.end]]
    /\ UNCHANGED << db, first, run >>

\* line 206
EnsureSchema(p) ==
    /\ call[p].pc = "ensure"
    /\ db' = ensure_database_ready(db)
    /\ call' = [call EXCEPT ![p].pc = "delete"]
    /\ UNCHANGED << first, run >>

\* a pre-delete that reports its count and leaves the commit undone
PreDelete_uncommitted(p) ==
    /\ call[p].pc = "delete"
    /\ \E r \in {delete_date_range(db, "neows", call[p].start, call[p].end)} :
          /\ db' = db
          /\ call' = [call EXCEPT ![p] =
                         IF r.err # "none"
                         THEN [@ EXCEPT !.pc = "raised", !.err = r.err]
                         ELSE [@ EXCEPT !.pc = "insert", !.deleted = r.deleted]]
    /\ UNCHANGED << first, run >>

\* lines 208-211: the pre-delete and its commit
PreDelete(p) ==
    /\ call[p].pc = "delete"
    /\ \E r \in {delete_date_range(db, "neows", call[p].start, call[p].end)} :
          /\ db' = r.store
          /\ call' = [call EXCEPT ![p] =
                         IF r.err # "none"
                         THEN [@ EXCEPT !.pc = "raised", !.err = r.err]
                         ELSE [@ EXCEPT !.pc = "insert", !.deleted = r.deleted]]
    /\ UNCHANGED << first, run >>

\* lines 213-224: to_sql in its own connection, committed or rolled back
InsertFrame(p) ==
    /\ call[p].pc = "insert"
    /\ \E r \in {to_sql(db, "neows", call[p].df, "append", 0)} :
          /\ db' = r.store
          /\ call' = [call EXCEPT ![p] =
                         IF r.err # "none"
                         THEN [@ EXCEPT !.pc = "raised", !.err = r.err,
                                        !.raced = call[Other(p)].pc = "insert"]
                         ELSE [@ EXCEPT !.pc = "returned", !.ret = Len(call[p].df.rows),
                                        !.raced = call[Other(p)].pc = "insert"]]
    /\ UNCHANGED << first, run >>

(***************************************************************************)
(* The arguments the calls are drawn from.                                 *)
(***************************************************************************)
D1 == DateStr(2025, 1, 1)

D5 == DateStr(2025, 1, 5)

D10 == DateStr(2025, 1, 10)

StartSet == {None, D1, D5}

EndSet == {None, D5, D10}

\* rows in ascending close_approach_date, nulls last, as sort_values
\* leaves them; rows of one date by id, nulls last
RowLE(r1, r2) ==
    LET a == r1.close_approach_date
        b == r2.close_approach_date
    IN IF a # b THEN b = None \/ (a # None /\ StrLess(a, b))
       ELSE r1.id = r2.id \/ r2.id = None

IsSorted(rs) == \A i \in 1..(Len(rs) - 1) : RowLE(rs[i], rs[i + 1])

Frames == {df \in DataFrames(MaxBatch) : IsSorted(df.rows)}

\* chunk_size: None (0), or one row per chunk where that differs
ChunkSizes(df) == IF Len(df.rows) > 1 THEN {0, 1} ELSE {0}

\* the two pandas builds, where min() and max() behave differently
Builds(df, del, start, end) ==
    IF del /\ (start = None \/ end = None) /\ HasNullDate(df) /\ DatesOf(df) # {}
    THEN BOOLEAN ELSE {TRUE}

\* the window arguments are read only when the pre-delete is requested
Windows(del) ==
    IF del THEN StartSet \X EndSet ELSE {<< None, None >>}

(***************************************************************************)
(* The load layer called in any order on the default table.                *)
(***************************************************************************)
Init ==
    /\ db \in FreshStores
    /\ call = NoCall
    /\ first = NoFirst
    /\ run = NoRun

\* a call is made once the caller has taken the last result
Idle == call.op = "none"

AnyLoad ==
    /\ Idle
    /\ \E df \in Frames, mode \in Modes, del \in BOOLEAN :
          \E w \in Windows(del), chunk \in ChunkSizes(df) :
             \E skipna \in Builds(df, del, w[1], w[2]) :
                LoadDataframeToSqlite(df, "neows", mode, chunk, del, w[1], w[2], skipna)
    /\ UNCHANGED << first, run >>

AnyDelete ==
    /\ Idle
    /\ \E start \in DateSet, end \in DateSet :
          DeleteDateRange("neows", start, end)
    /\ UNCHANGED << first, run >>

Next ==
    \/ EnsureDatabaseReady /\ UNCHANGED << first, run >>
    \/ AnyDelete
    \/ AnyLoad
    \/ Return /\ UNCHANGED << first, run >>

Spec == Init /\ [][Next]_vars

(***************************************************************************)
(* A load into a fresh store, and the same load again: the same frame,     *)
(* mode, chunk size and window arguments, on the same pandas build.        *)
(***************************************************************************)
FirstLoad ==
    /\ first.op = "none"
    /\ \E df \in Frames, mode \in Modes, del \in BOOLEAN :
          \E w \in Windows(del), chunk \in ChunkSizes(df) :
             \E skipna \in Builds(df, del, w[1], w[2]) :
                /\ LoadDataframeToSqlite(df, "neows", mode, chunk, del, w[1], w[2], skipna)
                /\ first' = [op |-> "load", df |-> df, mode |-> mode, chunk |-> chunk,
                             del |-> del, start |-> w[1], end |-> w[2],
                             skipna |-> skipna, err |-> call'.err]
    /\ UNCHANGED run

Reload ==
    /\ first.op = "load"
    /\ LoadDataframeToSqlite(first.df, "neows", first.mode, first.chunk, first.del,
                             first.start, first.end, first.skipna)
    /\ first' = [first EXCEPT !.op = "reloaded"]
    /\ UNCHANGED run

NextReload ==
    \/ FirstLoad
    \/ Reload

SpecReload == Init /\ [][NextReload]_vars

(***************************************************************************)
(* The first load into a table that does not exist yet, under either table *)
(* name.                                                                   *)
(***************************************************************************)
FirstUse ==
    /\ Idle
    /\ \E table \in TableNames, df \in Frames, mode \in Modes, del \in BOOLEAN :
          /\ ~db.tables[table].exists
          /\ \E w \in Windows(del), chunk \in ChunkSizes(df) :
                \E skipna \in Builds(df, del, w[1], w[2]) :
                   LoadDataframeToSqlite(df, table, mode, chunk, del, w[1], w[2], skipna)
    /\ UNCHANGED << first, run >>

NextTables ==
    \/ FirstUse
    \/ Return /\ UNCHANGED << first, run >>

SpecTables == Init /\ [][NextTables]_vars

(***************************************************************************)
(* The feed pipeline run from the command line, MaxRuns times with the     *)
(* same validated range, the same DEMO_MODE and the same source.           *)
(***************************************************************************)
D0 == DateStr(2024, 12, 31)

\* what validate_date_range returns: two dates, start <= end
Ranges == {w \in {D0, D1, D5} \X {D0, D1, D5} : StrLE(w[1], w[2])}

\* the values of the sample: a velocity and a distance as texts, the
\* magnitude and the diameters as numbers
Velocity == << "1", "2", ".", "5" >>

Distance == << "7" >>

Magnitude == Num(<< "2", "2", ".", "1" >>)

DiameterMin == Num(<< "0", ".", "1" >>)

DiameterMax == Num(<< "0", ".", "3" >>)

Hazardous == << "true" >>

Earth == << "Earth" >>

Name == << "Apophis" >>

Kilometers(min, max) ==
    [kind |-> "dict", estimated_diameter_min |-> min, estimated_diameter_max |-> max]

EstimatedDiameter(min, max) == [kind |-> "dict", kilometers |-> Kilometers(min, max)]

RelativeVelocity(v) == [kind |-> "dict", kilometers_per_second |-> v]

MissDistance(v) == [kind |-> "dict", kilometers |-> v]

\* an approach of the sample on the given date
Approach(date) ==
    [close_approach_date |-> date, relative_velocity |-> RelativeVelocity(Velocity),
     miss_distance |-> MissDistance(Distance), orbiting_body |-> Earth]

CloseApproachData(dates) ==
    [kind |-> "list", items |-> [k \in 1..Len(dates) |-> Approach(dates[k])]]

NoList(kind) == [kind |-> kind, items |-> << >>]

\* an asteroid of the sample with the given id and close approaches
Asteroid(id, cad) ==
    [id |-> id, name |-> Name, absolute_magnitude_h |-> Magnitude,
     is_potentially_hazardous_asteroid |-> Hazardous,
     estimated_diameter |-> EstimatedDiameter(DiameterMin, DiameterMax),
     close_approach_data |-> cad]

Group(date, asteroids) == [date |-> date, kind |-> "list", asteroids |-> asteroids]

\* a date key whose value is null
NullGroup(date) == [date |-> date, kind |-> "null", asteroids |-> << >>]

Ok(groups) == [status |-> "ok", neos |-> groups]

NoKey == [status |-> "nokey", neos |-> << >>]

NullKey == [status |-> "null", neos |-> << >>]

\* the dates of consecutive close approaches, taken from one listing
DateRuns ==
    LET listing == << D10, D1, Absent >>
    IN {SubSeq(listing, i, j) : i \in 1..(Len(listing) + 1),
                                j \in 0..Len(listing)} \ {<< >>}

Asteroids ==
    {Asteroid(id, CloseApproachData(dates)) :
        id \in IdSet \cup {Absent},
        dates \in {<< >>} \cup {r \in DateRuns : Len(r) <= MaxApproaches}}

\* an asteroid whose one approach has a velocity that is no number
Unparseable ==
    Asteroid(Digit(1),
             [kind |-> "list",
              items |-> << [Approach(D1) EXCEPT
                              !.relative_velocity = RelativeVelocity(<< "a", "n" >>)] >>])

Feeds ==
    {NoFeed, NoKey, NullKey, Ok(<< Group(D1, << Unparseable >>) >>)}
    \cup {Ok(<< Group(D1, ns) >>) : ns \in SeqsUpTo(Asteroids, MaxAsteroids)}

InitPipeline ==
    /\ db \in FreshStores
    /\ call = NoCall
    /\ first = NoFirst
    /\ \E w \in Ranges, demo \in BOOLEAN, source \in Feeds :
          run = [NoRun EXCEPT !.pc = "fetch", !.start = w[1], !.end = w[2],
                              !.demo = demo, !.source = source,
                              !.before = [db |-> db, csv |-> NoCsv]]

NextPipeline ==
    \/ FetchStage
    \/ TransformStage
    \/ LoadStage
    \/ RunAgain

SpecPipeline == InitPipeline /\ [][NextPipeline]_vars

(***************************************************************************)
(* The transform functions applied to one raw feed.  The feeds are of two  *)
(* families: the sample's asteroids in every arrangement of date keys,     *)
(* asteroids and close approaches, and one asteroid with one approach      *)
(* whose optional fields and containers are absent, null or present.       *)
(***************************************************************************)
ApproachLists ==
    {NoList("absent"), NoList("null"), NoList("list")}
    \cup {CloseApproachData(ds) : ds \in {r \in DateRuns : Len(r) <= MaxApproaches}}

ArrangedAsteroids == {Asteroid(id, cad) : id \in {Digit(1), Digit(2)}, cad \in ApproachLists}

\* at most n asteroids under one date key, or fewer under a first key and
\* at most one under a second
ArrangedFeeds(n) ==
    {Ok(<< >>), NoKey, NullKey, Ok(<< NullGroup(D1) >>)}
    \cup {Ok(<< Group(D1, ns) >>) : ns \in SeqsUpTo(ArrangedAsteroids, n)}
    \cup {Ok(<< Group(w[1], ns1), Group(w[2], ns2) >>) :
            w \in {<< D1, D10 >>, << D10, D1 >>},
            ns1 \in SeqsUpTo(ArrangedAsteroids, n - 1),
            ns2 \in SeqsUpTo(ArrangedAsteroids, 1)}

\* the shapes of an optional object and of its one value
Containers(values) ==
    {[kind |-> "absent", value |-> Absent], [kind |-> "null", value |-> Absent]}
    \cup {[kind |-> "dict", value |-> v] : v \in values}

VelocityValues ==
    {Absent, None, Velocity, << >>, << "a", "n" >>, Num(Distance)}

DistanceValues == {Absent, Distance, << "a", "n" >>}

DiameterShapes ==
    {[kind |-> "absent", kilometers |-> Kilometers(Absent, Absent)],
     [kind |-> "null", kilometers |-> Kilometers(Absent, Absent)]}
    \cup {[kind |-> "dict", kilometers |-> [Kilometers(Absent, Absent) EXCEPT !.kind = k]] :
             k \in {"absent", "null"}}
    \cup {EstimatedDiameter(min, max) :
             min \in {Absent, DiameterMin}, max \in {Absent, DiameterMax}}

VariedApproaches ==
    {[close_approach_date |-> date,
      relative_velocity |-> [kind |-> rv.kind, kilometers_per_second |-> rv.value],
      miss_distance |-> [kind |-> md.kind, kilometers |-> md.value],
      orbiting_body |-> body] :
        date \in {Absent, D1}, rv \in Containers(VelocityValues),
        md \in Containers(DistanceValues), body \in {Absent, None, Earth}}

VariedAsteroids ==
    {[id |-> id, name |-> name, absolute_magnitude_h |-> h,
      is_potentially_hazardous_asteroid |-> z, estimated_diameter |-> ed,
      close_approach_data |-> [kind |-> "list", items |-> << p >>]] :
        id \in {Absent, None, Digit(1)}, name \in {Absent, Name},
        h \in {Absent, Magnitude}, z \in {Absent, Hazardous},
        ed \in DiameterShapes, p \in VariedApproaches}

VariedFeeds == {Ok(<< Group(D1, << a >>) >>) : a \in VariedAsteroids}

\* the transform functions never open the store
InitFlatten ==
    /\ db \in {s \in FreshStores : s.file = "absent"}
    /\ call = NoCall
    /\ first = NoFirst
    /\ \E raw \in ArrangedFeeds(MaxAsteroids) \cup VariedFeeds :
          run = [NoRun EXCEPT !.pc = "raw", !.raw = raw]

ExtractCloseApproaches ==
    /\ run.pc = "raw"
    /\ run' = [run EXCEPT !.pc = "flat", !.flat = extract_close_approaches(run.raw)]
    /\ UNCHANGED << db, call, first >>

TransformToDataframe ==
    /\ run.pc \in {"raw", "flat"}
    /\ run' = [run EXCEPT !.pc = "frame", !.frame = transform_to_dataframe(run.raw)]
    /\ UNCHANGED << db, call, first >>

NextFlatten ==
    \/ ExtractCloseApproaches
    \/ TransformToDataframe

SpecFlatten == InitFlatten /\ [][NextFlatten]_vars

(***************************************************************************)
(* validate_date_range applied to two texts of the command line: dates     *)
(* written with and without leading zeros, days the calendar lacks, a year *)
(* below 1000, and texts that are no dates.                                *)
(***************************************************************************)
Dash == << "-" >>

Years == {999, 2024, 2025}

YearTexts == {FourDigits(y) : y \in Years} \cup {TwoDigits(25)}

MonthTexts == {Digit(2), TwoDigits(2), TwoDigits(12), TwoDigits(13)}

DayTexts == {Digit(1), TwoDigits(1), TwoDigits(29), TwoDigits(30), TwoDigits(31),
             TwoDigits(32)}

DateTexts ==
    {y \o Dash \o m \o Dash \o d : y \in YearTexts, m \in MonthTexts, d \in DayTexts}
    \cup {<< >>, << "a", "n" >>, D1 \o Digit(1), D1 \o Dash \o Digit(1),
          FourDigits(2025) \o Dash \o TwoDigits(1)}

\* validate_date_range never opens the store
InitDates ==
    /\ db \in {s \in FreshStores : s.file = "absent"}
    /\ call = NoCall
    /\ first = NoFirst
    /\ \E start_str \in DateTexts, end_str \in DateTexts :
          run = [NoRun EXCEPT !.pc = "dates", !.args.start = start_str,
                              !.args.end = end_str]

ValidateDateRange ==
    /\ run.pc = "dates"
    /\ \E padded \in BOOLEAN :
          \E r \in {validate_date_range(run.args.start, run.args.end, padded)} :
             run' = [run EXCEPT !.pc = IF r.err = "none" THEN "validated" ELSE "rejected",
                                !.range = r]
    /\ UNCHANGED << db, call, first >>

NextDates == ValidateDateRange

SpecDates == InitDates /\ [][NextDates]_vars

(***************************************************************************)
(* The command line run MaxRuns times, each time with its own arguments,   *)
(* DEMO_MODE and source.                                                   *)
(***************************************************************************)
CommandLines ==
    [mode : {"feed"}, start : {None, << >>, << "a", "n" >>, D1, D5}, end : {None, D1, D5}]
    \cup {[mode |-> m, start |-> None, end |-> None] : m \in {"browse", "other"}}

\* sources by what becomes of the run: no response, a response without
\* the key, no approach at all, an unparseable velocity, one approach, the
\* same approach twice
Sources ==
    {NoFeed, NoKey, Ok(<< >>), Ok(<< Group(D1, << Unparseable >>) >>)}
    \cup {Ok(<< Group(D1, << Asteroid(Digit(1), CloseApproachData(ds)) >>) >>) :
             ds \in {<< D1 >>, << D1, D1 >>}}

\* python -m src.pipeline with some arguments
RunCli ==
    /\ run.pc \in {"off", "done"}
    /\ Len(run.exits) < MaxRuns
    /\ \E args \in CommandLines, demo \in BOOLEAN, source \in Sources :
          run' = [run EXCEPT !.pc = "main", !.args = args, !.demo = demo,
                             !.source = source, !.raw = NoFeed,
                             !.frame = NoFrame("none"), !.range = NoRange("none"),
                             !.start = None, !.end = None,
                             !.stages = << >>, !.written = << >>,
                             !.before = [db |-> db, csv |-> run.csv]]
    /\ UNCHANGED << db, call, first >>

NextCli ==
    \/ RunCli
    \/ Main
    \/ FetchStage
    \/ TransformStage
    \/ LoadStage

SpecCli == Init /\ [][NextCli]_vars

(***************************************************************************)
(* The fetch stage of a process that may set the mode first, up to         *)
(* MaxRuns times after a failure.  The second specification adds that a    *)
(* request sent is answered or gives up (requests.get has its timeout)     *)
(* and that a wait ends (time.sleep returns).                              *)
(***************************************************************************)
EnvValues ==
    {Absent, << "0" >>, << "1" >>, << "t", "r", "u", "e" >>, << "Y", "E", "S" >>,
     << "n", "o" >>}

\* no response, 200, 404, 429, 503
Replies == {0, 200, 404, 429, 503}

FetchSources ==
    {NoFeed, NoKey, Ok(<< Group(D1, << Asteroid(Digit(1), CloseApproachData(<< D1 >>)) >>) >>)}

InitFetch ==
    /\ db \in {s \in FreshStores : s.file = "absent"}
    /\ call = NoCall
    /\ first = NoFirst
    /\ \E env \in EnvValues :
          run = [NoRun EXCEPT !.env = env, !.imported = demo_mode(env)]

\* run_feed_mode called on a validated range
RunFeedMode ==
    /\ run.pc \in {"off", "done"}
    /\ Len(run.exits) < MaxRuns
    /\ \E w \in {<< D0, D1 >>, << D1, D5 >>}, source \in FetchSources :
          run' = [run EXCEPT !.pc = "fetch", !.start = w[1], !.end = w[2],
                             !.source = source, !.raw = NoFeed, !.stages = << >>,
                             !.http = NoHttp]
    /\ call' = NoCall
    /\ UNCHANGED << db, first >>

NextFetch ==
    \/ \E enable \in BOOLEAN : SetDemoModeForProcess(enable)
    \/ \E enable \in BOOLEAN : SetLiveModeForProcess(enable)
    \/ RunFeedMode
    \/ FetchFeed
    \/ ReadSample
    \/ \E reply \in Replies : Request(reply)
    \/ Backoff

SpecFetch == InitFetch /\ [][NextFetch]_vars

SpecFetchLive ==
    /\ InitFetch
    /\ [][NextFetch]_vars
    /\ WF_vars(\E reply \in Replies : Request(reply))
    /\ WF_vars(Backoff)

(***************************************************************************)
(* Two processes, each loading one batch into the same file.  The file is  *)
(* new, or holds the table of the schema with one row, or holds the table  *)
(* as a load with if_exists = "replace" leaves it, without the primary     *)
(* key, with one row.                                                      *)
(***************************************************************************)
KeyedRow(date) == [close_approach_date |-> date, id |-> Digit(1)]

OneRow == [hasDate |-> TRUE, rows |-> << KeyedRow(D1) >>]

NewStore == [file |-> "absent", tables |-> [t \in TableNames |-> NoTable]]

SharedStores ==
    {NewStore}
    \cup {load_dataframe_to_sqlite(NewStore, OneRow, "neows", mode, 0, FALSE,
                                   None, None, TRUE).store : mode \in {"append", "replace"}}

Batches ==
    {[hasDate |-> TRUE, rows |-> rs] :
        rs \in SeqsUpTo({KeyedRow(D1), KeyedRow(D5)}, MaxBatch) \ {<< >>}}

BatchWindows == {<< None, None >>, << D1, D1 >>, << D1, D5 >>}

InitLoads ==
    /\ db \in SharedStores
    /\ call = [p \in Procs |-> NoLoad]
    /\ first = NoFirst
    /\ run = [NoRun EXCEPT !.before.db = db]

NextLoads ==
    \E p \in Procs :
       \/ \E df \in Batches, w \in BatchWindows : CallLoad(p, df, w[1], w[2])
       \/ EnsureSchema(p)
       \/ PreDelete(p)
       \/ InsertFrame(p)

SpecLoads == InitLoads /\ [][NextLoads]_vars

(***************************************************************************)
(* What the properties below read of a call and of the tables.             *)
(***************************************************************************)
\* how often row r occurs in a sequence of rows
Occurrences(rs, r) == Cardinality({i \in 1..Len(rs) : rs[i] = r})

\* start <= date <= end on the texts; w is the pair << start, end >>
InWindow(r, w) ==
    /\ w # NoWindow
    /\ r.close_approach_date # None
    /\ StrLE(w[1], r.close_approach_date)
    /\ StrLE(r.close_approach_date, w[2])

\* the rows of a table that a delete of window w leaves
Outside(rows, w) == [r \in RowU |-> IF InWindow(r, w) THEN 0 ELSE CopiesIn(r, rows)]

DistinctKeys(df) ==
    \A i, j \in 1..Len(df.rows) : i # j => df.rows[i] # df.rows[j]

LoadStep == call'.op = "load"

\* every row has both key fields
KeysPresent(rs) ==
    \A i \in 1..Len(rs) : rs[i].close_approach_date # None /\ rs[i].id # None

(***************************************************************************)
(* C1.  A batch of rows with both key fields, loaded into an empty table   *)
(* with the pre-delete and loaded again with the same arguments: the       *)
(* second load succeeds and leaves the table as the first left it, with as *)
(* many rows as the batch has.                                             *)
(***************************************************************************)
C1_ReloadIsIdempotent ==
    [][(first.op = "load" /\ first'.op = "reloaded"
            /\ first.mode = "append" /\ first.del /\ first.err = "none"
            /\ KeysPresent(first.df.rows))
          => /\ call'.err = "none"
             /\ Rows(db', "neows") = Rows(db, "neows")
             /\ BagSize(Rows(db', "neows")) = Len(first.df.rows)]_vars

(***************************************************************************)
(* C2.  The pipeline run twice with the same range against the same        *)
(* source, whose approaches all have a date and an id: when the first run  *)
(* ended with exit code 0, the second ends with exit code 0 and leaves the *)
(* table as the first left it.                                             *)
(***************************************************************************)
C2_PipelineRerunIsIdempotent ==
    [][(run.pc = "load" /\ run.exits = << 0 >> /\ KeysPresent(run.frame.rows))
          => /\ run'.exits = << 0, 0 >>
             /\ Rows(db', "neows") = Rows(db, "neows")]_vars

(***************************************************************************)
(* C3.  In every reachable state no two rows of the table share the same   *)
(* (close_approach_date, id) pair.                                         *)
(***************************************************************************)
C3_NaturalKeyUnique == \A r \in RowU : CopiesIn(r, Rows(db, "neows")) <= 1

(***************************************************************************)
(* C4.  A load with the pre-delete requested, on a batch whose natural     *)
(* keys are pairwise distinct, never fails with a uniqueness violation.    *)
(***************************************************************************)
C4_PreDeleteAvoidsCollision ==
    (call.op = "load" /\ call.del /\ DistinctKeys(call.df))
        => call.err # "IntegrityError"

(***************************************************************************)
(* C5.  A load whose batch holds two rows with the same                    *)
(* (close_approach_date, id), both fields present, fails, and inserts none *)
(* of the batch's rows.                                                    *)
(***************************************************************************)
C5_DuplicateBatchFailsWhole ==
    [][(LoadStep /\ ~DistinctKeys(call'.df) /\ KeysPresent(call'.df.rows))
          => /\ call'.err # "none"
             /\ \A r \in RowU : CopiesIn(r, Rows(db', call'.table))
                                    <= CopiesIn(r, Rows(db, call'.table))]_vars

(***************************************************************************)
(* C6.  A load in append mode leaves every stored row outside the resolved *)
(* delete window in place: when it returns, the table is exactly the       *)
(* previous rows outside the window plus the incoming rows, and when it    *)
(* raises, the table is the previous rows outside the window.              *)
(***************************************************************************)
C6_AppendKeepsRowsOutsideWindow ==
    [][(LoadStep /\ call'.mode = "append")
          => LET old == Rows(db, call'.table)
                 new == Rows(db', call'.table)
                 kept == Outside(old, call'.window)
             IN \A r \in RowU :
                   CopiesIn(r, new) = kept[r] + IF call'.err = "none"
                                               THEN Occurrences(call'.df.rows, r)
                                               ELSE 0]_vars

\* an append that succeeded, deleted a window, and left an older row outside it
C6_Witness ==
    /\ call.op = "load" /\ call.mode = "append" /\ call.err = "none"
    /\ call.window # NoWindow
    /\ \E r \in RowU : /\ ~InWindow(r, call.window)
                       /\ CopiesIn(r, Rows(db, "neows")) > Occurrences(call.df.rows, r)

(***************************************************************************)
(* C7.  delete_date_range removes exactly the rows with                    *)
(* start <= close_approach_date <= end, leaves the others, and returns the *)
(* number of rows removed (0 when none matches), on a table that has the   *)
(* date column.                                                            *)
(***************************************************************************)
C7_DeleteRangeExact ==
    [][(call'.op = "delete" /\ db.tables[call'.table].exists
                            /\ db.tables[call'.table].dateCol)
          => LET old == Rows(db, call'.table)
                 w == << call'.start, call'.end >>
             IN /\ call'.err = "none"
                /\ \A r \in RowU : CopiesIn(r, Rows(db', call'.table)) = Outside(old, w)[r]
                /\ call'.ret = Cardinality({<< r, k >> \in RowU \X (1..BagSize(old)) :
                                                InWindow(r, w) /\ k <= CopiesIn(r, old)})]_vars

\* a delete of the one-day window [d, d] that removed rows and left others
C7_Witness ==
    /\ call.op = "delete" /\ call.err = "none"
    /\ call.start = call.end
    /\ call.ret > 0
    /\ BagSize(Rows(db, "neows")) > 0

(***************************************************************************)
(* C8.  The window load hands to the pre-delete is << start, end >> when   *)
(* both were supplied; otherwise both bounds are the least and the         *)
(* greatest close_approach_date of the incoming rows, and a single         *)
(* supplied bound is ignored.                                              *)
(***************************************************************************)
C8_WindowResolution ==
    (call.op = "load" /\ call.del /\ call.window # NoWindow)
        => IF call.start # None /\ call.end # None
           THEN call.window = << call.start, call.end >>
           ELSE LET ds == DatesOf(call.df)
                IN IF ds = {} THEN call.window = << NaNStr, NaNStr >>
                   ELSE /\ call.window[1] \in ds
                        /\ call.window[2] \in ds
                        /\ \A d \in ds : StrLE(call.window[1], d) /\ StrLE(d, call.window[2])

\* only the start was supplied, and the window opens at an earlier date
C8_Witness ==
    /\ call.op = "load" /\ call.del
    /\ call.start # None /\ call.end = None
    /\ call.window # NoWindow
    /\ StrLess(call.window[1], call.start)

(***************************************************************************)
(* C9.  load fails with a data error when the rows are empty, or when the  *)
(* pre-delete is requested and the rows have no close_approach_date        *)
(* column; the store is then the same after the call as before it.         *)
(***************************************************************************)
C9_FailFastLeavesStore ==
    [][(LoadStep /\ (Len(call'.df.rows) = 0 \/ (call'.del /\ ~call'.df.hasDate)))
          => call'.err = "ValueError" /\ db' = db]_vars

\* a rejected frame, and a database file that was never created
C9_Witness ==
    /\ call.op = "load" /\ call.err = "ValueError"
    /\ call.del /\ ~call.df.hasDate /\ Len(call.df.rows) > 0
    /\ db.file # "present"

C11_FirstLoadCreatesTable ==
    [][(LoadStep /\ ~db.tables[call'.table].exists /\ call'.mode = "append"
            /\ Len(call'.df.rows) > 0 /\ call'.df.hasDate
            /\ KeysPresent(call'.df.rows) /\ DistinctKeys(call'.df))
          => /\ call'.err = "none"
             /\ db'.tables[call'.table].exists
             /\ BagSize(Rows(db', call'.table)) = Len(call'.df.rows)]_vars

(***************************************************************************)
(* What the properties below read of a raw feed.                           *)
(***************************************************************************)
\* the positions (date key, asteroid, close approach) of the approach
\* events of a feed
EventIndex(raw) ==
    UNION {UNION {{<< g, a, k >> :
                     k \in 1..Len(raw.neos[g].asteroids[a].close_approach_data.items)} :
                  a \in 1..Len(raw.neos[g].asteroids)} :
           g \in 1..Len(raw.neos)}

AsteroidsOf(raw) ==
    UNION {{raw.neos[g].asteroids[a] : a \in 1..Len(raw.neos[g].asteroids)} :
           g \in 1..Len(raw.neos)}

ApproachesOf(raw) ==
    {raw.neos[t[1]].asteroids[t[2]].close_approach_data.items[t[3]] : t \in EventIndex(raw)}

\* no container of the feed is null
NoNullContainer(raw) ==
    /\ raw.status # "null"
    /\ \A g \in 1..Len(raw.neos) : raw.neos[g].kind # "null"
    /\ \A a \in AsteroidsOf(raw) :
          /\ a.estimated_diameter.kind # "null"
          /\ a.estimated_diameter.kilometers.kind # "null"
          /\ a.close_approach_data.kind # "null"
    /\ \A p \in ApproachesOf(raw) :
          p.relative_velocity.kind # "null" /\ p.miss_distance.kind # "null"

\* a velocity or distance value that is there and is a number
IsNumber(v) == v \in {Velocity, Distance, Num(Distance)}

\* every velocity and distance of the feed is absent or a number
NumbersParse(raw) ==
    \A p \in ApproachesOf(raw) :
       /\ p.relative_velocity.kilometers_per_second = Absent
             \/ IsNumber(p.relative_velocity.kilometers_per_second)
       /\ p.miss_distance.kilometers = Absent \/ IsNumber(p.miss_distance.kilometers)

(***************************************************************************)
(* C12.  The flattener, on a feed without null containers whose velocities *)
(* and distances are absent or numbers, raises nothing; whenever it        *)
(* returns, the number of its rows is the number of approach events of the *)
(* feed, an asteroid whose list is absent or empty adding none; a feed     *)
(* without the key, without date keys or without events gives no rows and  *)
(* no error.                                                               *)
(***************************************************************************)
C12_OneRowPerApproachEvent ==
    run.pc = "flat" =>
       /\ (NoNullContainer(run.raw) /\ NumbersParse(run.raw)) => run.flat.err = "none"
       /\ run.flat.err = "none" => Len(run.flat.rows) = Cardinality(EventIndex(run.raw))
       /\ (NoNullContainer(run.raw) /\ EventIndex(run.raw) = {})
             => run.flat = Records(<< >>)

\* two rows from one asteroid, beside an asteroid without a list
C12_Witness ==
    /\ run.pc = "flat"
    /\ run.flat.err = "none"
    /\ Len(run.flat.rows) = 2
    /\ \E a \in AsteroidsOf(run.raw) : a.close_approach_data.kind = "absent"
    /\ \E a \in AsteroidsOf(run.raw) : Len(a.close_approach_data.items) = 2

(***************************************************************************)
(* What the properties below read of the flattener's rows.                 *)
(***************************************************************************)
\* position u comes before position t in the order of the loops
Before(u, t) ==
    \/ u[1] < t[1]
    \/ u[1] = t[1] /\ u[2] < t[2]
    \/ u[1] = t[1] /\ u[2] = t[2] /\ u[3] < t[3]

\* the place in the list of the record of the event at position t
Rank(raw, t) == 1 + Cardinality({u \in EventIndex(raw) : Before(u, t)})

AsteroidAt(raw, t) == raw.neos[t[1]].asteroids[t[2]]

ApproachAt(raw, t) == AsteroidAt(raw, t).close_approach_data.items[t[3]]

\* what a field that may be absent is to become
OrElse(v, default) == IF v = Absent THEN default ELSE v

\* the diameter bound of an asteroid, Absent when a container is
DiameterOf(a, min) ==
    IF a.estimated_diameter.kind # "dict" \/ a.estimated_diameter.kilometers.kind # "dict"
    THEN Absent
    ELSE IF min THEN a.estimated_diameter.kilometers.estimated_diameter_min
         ELSE a.estimated_diameter.kilometers.estimated_diameter_max

\* the numbers of the sample in thousandths: 12.5 and 7
NumberOf(v) == IF v = Velocity THEN 12500 ELSE 7000

\* the number a velocity or distance is to become
MeasureOf(kind, v) == IF kind # "dict" \/ v = Absent THEN 0 ELSE NumberOf(v)

(***************************************************************************)
(* C13.  Whenever the flattener returns, the row of every approach event   *)
(* holds, field by field: None for an absent id, name, magnitude, hazard   *)
(* flag, diameter minimum or maximum; 0.0 for a velocity or distance whose *)
(* value or container is absent; "Unknown" for an absent orbiting body;    *)
(* and the value of the feed for every field that is present, velocity and *)
(* distance as numbers.                                                    *)
(***************************************************************************)
C13_FieldsDefaultIndependently ==
    (run.pc = "flat" /\ run.flat.err = "none") =>
       \A t \in EventIndex(run.raw) :
          LET a == AsteroidAt(run.raw, t)
              p == ApproachAt(run.raw, t)
              row == run.flat.rows[Rank(run.raw, t)]
          IN /\ row.id = OrElse(a.id, None)
             /\ row.name = OrElse(a.name, None)
             /\ row.absolute_magnitude_h = OrElse(a.absolute_magnitude_h, None)
             /\ row.is_potentially_hazardous
                   = OrElse(a.is_potentially_hazardous_asteroid, None)
             /\ row.diameter_min_km = OrElse(DiameterOf(a, TRUE), None)
             /\ row.diameter_max_km = OrElse(DiameterOf(a, FALSE), None)
             /\ row.close_approach_date = OrElse(p.close_approach_date, None)
             /\ row.relative_velocity_kps
                   = MeasureOf(p.relative_velocity.kind,
                               p.relative_velocity.kilometers_per_second)
             /\ row.miss_distance_km
                   = MeasureOf(p.miss_distance.kind, p.miss_distance.kilometers)
             /\ row.orbiting_body = OrElse(p.orbiting_body, Unknown)

\* an asteroid without id and an approach without velocity container and
\* orbiting body, its name and distance present
C13_Witness ==
    /\ run.pc = "flat"
    /\ run.flat.err = "none"
    /\ \E a \in AsteroidsOf(run.raw) : a.id = Absent /\ a.name = Name
    /\ \E p \in ApproachesOf(run.raw) :
          /\ p.relative_velocity.kind = "absent"
          /\ p.orbiting_body = Absent
          /\ p.miss_distance.kilometers = Distance
    /\ \E i \in 1..Len(run.flat.rows) :
          /\ run.flat.rows[i].id = None
          /\ run.flat.rows[i].name = Name
          /\ run.flat.rows[i].relative_velocity_kps = 0
          /\ run.flat.rows[i].miss_distance_km = 7000
          /\ run.flat.rows[i].orbiting_body = Unknown

\* a velocity or distance value that is a text and no number
IsUnparseable(v) == v # Absent /\ v # None /\ ~IsNumber(v)

HasUnparseable(raw) ==
    \E p \in ApproachesOf(raw) :
       \/ IsUnparseable(p.relative_velocity.kilometers_per_second)
       \/ IsUnparseable(p.miss_distance.kilometers)

(***************************************************************************)
(* C14.  The flattener raises only on a feed in which some approach event  *)
(* has a velocity or miss distance that is present and is no number: on    *)
(* every other feed, whatever fields or containers are absent, null or     *)
(* empty, it returns.                                                      *)
(***************************************************************************)
C14_RaisesOnlyOnUnparseableNumber ==
    (run.pc = "flat" /\ run.flat.err # "none") => HasUnparseable(run.raw)

\* no velocity or distance of the feed is null
NoNullNumber(raw) ==
    \A p \in ApproachesOf(raw) :
       /\ p.relative_velocity.kilometers_per_second # None
       /\ p.miss_distance.kilometers # None

\* the approach events whose velocity or distance is absent, value or
\* container
AbsentMeasures(raw) ==
    {t \in EventIndex(raw) :
        \/ ApproachAt(raw, t).relative_velocity.kilometers_per_second = Absent
        \/ ApproachAt(raw, t).miss_distance.kilometers = Absent}

(***************************************************************************)
(* C15, as the specification states it.  On a feed without null container, *)
(* velocity or distance that has an approach event with a velocity or miss *)
(* distance that is present and is no number, the flattener returns, and   *)
(* the row of every such event holds 0.0 in that field.                    *)
(***************************************************************************)
C15_UnparseableBecomesZero ==
    (run.pc = "flat" /\ HasUnparseable(run.raw)
        /\ NoNullContainer(run.raw) /\ NoNullNumber(run.raw)) =>
       /\ run.flat.err = "none"
       /\ \A t \in EventIndex(run.raw) :
             LET p == ApproachAt(run.raw, t)
                 row == run.flat.rows[Rank(run.raw, t)]
             IN /\ IsUnparseable(p.relative_velocity.kilometers_per_second)
                      => row.relative_velocity_kps = 0
                /\ IsUnparseable(p.miss_distance.kilometers) => row.miss_distance_km = 0

(***************************************************************************)
(* C15, amended.  On a feed that has an approach event with a velocity or  *)
(* miss distance that is present and is no number the flattener raises and *)
(* returns no row, with a ValueError when no container and no velocity or  *)
(* distance of the feed is null; only a velocity or distance that is       *)
(* absent is flattened to 0.0.                                             *)
(***************************************************************************)
C15_UnparseableRaises ==
    run.pc = "flat" =>
       /\ HasUnparseable(run.raw) => run.flat.err # "none" /\ run.flat.rows = << >>
       /\ (HasUnparseable(run.raw) /\ NoNullContainer(run.raw) /\ NoNullNumber(run.raw))
             => run.flat.err = "ValueError"
       /\ run.flat.err = "none" =>
             \A t \in AbsentMeasures(run.raw) :
                LET p == ApproachAt(run.raw, t)
                    row == run.flat.rows[Rank(run.raw, t)]
                IN /\ p.relative_velocity.kilometers_per_second = Absent
                         => row.relative_velocity_kps = 0
                   /\ p.miss_distance.kilometers = Absent => row.miss_distance_km = 0

\* an empty text for the velocity: the conversion has raised
C15_Witness ==
    /\ run.pc = "flat"
    /\ run.flat = Raised("ValueError")
    /\ \E p \in ApproachesOf(run.raw) :
          /\ p.relative_velocity.kilometers_per_second = << >>
          /\ p.miss_distance.kilometers = Distance

(***************************************************************************)
(* C16.  Every table transform_to_dataframe returns has exactly the ten    *)
(* columns id, name, close_approach_date, absolute_magnitude_h,            *)
(* diameter_min_km, diameter_max_km, is_potentially_hazardous,             *)
(* relative_velocity_kps, miss_distance_km, orbiting_body, in this order,  *)
(* also when the feed flattens to no rows.                                 *)
(***************************************************************************)
C16_FrameHasTenColumns ==
    (run.pc = "frame" /\ run.frame.err = "none") =>
       /\ Len(run.frame.columns) = 10
       /\ run.frame.columns = RowColumns

\* the k-th approach event in the order of the loops
EventAtRank(raw, k) == CHOOSE t \in EventIndex(raw) : Rank(raw, t) = k

(***************************************************************************)
(* C17.  Whenever the flattener returns, its k-th row is the row of the    *)
(* k-th approach event of the feed counted by date key as the feed lists   *)
(* them, then by asteroid within the key, then by approach within the      *)
(* asteroid: it carries that asteroid's id and that approach's date,       *)
(* whatever the dates are.                                                 *)
(***************************************************************************)
C17_RowsInIterationOrder ==
    (run.pc = "flat" /\ run.flat.err = "none") =>
       /\ Len(run.flat.rows) = Cardinality(EventIndex(run.raw))
       /\ \A k \in 1..Len(run.flat.rows) :
             LET t == EventAtRank(run.raw, k)
             IN /\ run.flat.rows[k].id = OrElse(AsteroidAt(run.raw, t).id, None)
                /\ run.flat.rows[k].close_approach_date
                      = OrElse(ApproachAt(run.raw, t).close_approach_date, None)

\* two date keys, the later one listed first: the later approach comes
\* first in the rows
C17_Witness ==
    /\ run.pc = "flat"
    /\ run.flat.err = "none"
    /\ Len(run.raw.neos) = 2
    /\ run.raw.neos[1].date = D10
    /\ Len(run.flat.rows) = 2
    /\ run.flat.rows[1].close_approach_date = D10
    /\ run.flat.rows[1].id = Digit(2)
    /\ run.flat.rows[2].close_approach_date = D1
    /\ run.flat.rows[2].id = Digit(1)

\* the dates of rs ascend, rows without a date behind all others
Ascending(rs) ==
    \A i \in 1..Len(rs), j \in 1..Len(rs) :
       i < j => ~DateBefore(rs[j].close_approach_date, rs[i].close_approach_date)

(***************************************************************************)
(* C18.  transform_to_dataframe applied to the feed the flattener was      *)
(* applied to: when the flattener returned, the frame holds the            *)
(* flattener's rows, each as often as the flattener gave it and with the   *)
(* same field values, in ascending order of close_approach_date (rows      *)
(* without a date last), whatever the order in the feed; when the          *)
(* flattener raised, transform_to_dataframe raises the same.               *)
(***************************************************************************)
C18_FrameIsFlattenerRowsSorted ==
    [][(run.pc = "flat" /\ run'.pc = "frame") =>
          IF run.flat.err # "none"
          THEN run'.frame.err = run.flat.err
          ELSE /\ run'.frame.err = "none"
               /\ Len(run'.frame.rows) = Len(run.flat.rows)
               /\ \A i \in 1..Len(run.flat.rows) :
                     Occurrences(run'.frame.rows, run.flat.rows[i])
                        = Occurrences(run.flat.rows, run.flat.rows[i])
               /\ Ascending(run'.frame.rows)]_vars

\* the flattener gave the later approach first, the frame has it last
C18_Witness ==
    /\ run.pc = "frame"
    /\ Len(run.flat.rows) = 2
    /\ run.flat.rows[1].close_approach_date = D10
    /\ run.flat.rows[2].close_approach_date = D1
    /\ Len(run.frame.rows) = 2
    /\ run.frame.rows[1] = run.flat.rows[2]
    /\ run.frame.rows[2] = run.flat.rows[1]

(***************************************************************************)
(* What the properties below read of a date text.                          *)
(***************************************************************************)
\* the ways to write the month or day k
Forms(k) == {TwoDigits(k)} \cup (IF k < 10 THEN {Digit(k)} ELSE {})

\* the texts that write the calendar date y-m-d
Written(y, m, d) ==
    {FourDigits(y) \o Dash \o ms \o Dash \o ds : ms \in Forms(m), ds \in Forms(d)}

CalendarDates == {c \in Years \X (1..12) \X (1..31) : c[3] <= DaysIn(c[1], c[2])}

IsCalendarDate(t) == \E c \in CalendarDates : t \in Written(c[1], c[2], c[3])

\* the calendar date a valid text writes
DateOf(t) == CHOOSE c \in CalendarDates : t \in Written(c[1], c[2], c[3])

\* c is not after e
NotAfter(c, e) ==
    \/ c[1] < e[1]
    \/ c[1] = e[1] /\ c[2] < e[2]
    \/ c[1] = e[1] /\ c[2] = e[2] /\ c[3] <= e[3]

\* the one YYYY-MM-DD text of a calendar date
Iso(c) == DateStr(c[1], c[2], c[3])

(***************************************************************************)
(* C19.  validate_date_range returns exactly when both texts write         *)
(* calendar dates and the start is not after the end, equal dates          *)
(* included, and then returns the two dates written as YYYY-MM-DD, the     *)
(* start not behind the end; otherwise it raises ValueError.               *)
(***************************************************************************)
C19_ValidatedRangeIsNormalized ==
    run.pc \in {"validated", "rejected"} =>
       LET valid == /\ IsCalendarDate(run.args.start)
                    /\ IsCalendarDate(run.args.end)
                    /\ NotAfter(DateOf(run.args.start), DateOf(run.args.end))
       IN /\ run.range.err = "none" <=> valid
          /\ ~valid => run.range.err = "ValueError"
          /\ valid => /\ run.range.start = Iso(DateOf(run.args.start))
                       /\ run.range.end = Iso(DateOf(run.args.end))
                       /\ StrLE(run.range.start, run.range.end)

\* the outcomes whose exit codes are to tell them apart
Outcomes ==
    {"success", "missing required arguments", "invalid date range",
     "fetch-stage failure", "transform-stage failure", "load-stage failure",
     "not-implemented mode"}

(***************************************************************************)
(* C20.  Among the runs of the command line that ended in success, missing *)
(* required arguments, invalid date range, fetch-stage failure,            *)
(* transform-stage failure, load-stage failure or not-implemented mode,    *)
(* two runs with different outcomes have different exit codes.             *)
(***************************************************************************)
C20_ExitCodesDistinguishOutcomes ==
    \A p \in run.outcomes, q \in run.outcomes :
       (p[1] \in Outcomes /\ q[1] \in Outcomes /\ p[1] # q[1]) => p[2] # q[2]

(***************************************************************************)
(* The stages of a feed run, read from the process.                        *)
(***************************************************************************)
StageOrder == << "fetch", "transform", "csv", "load" >>

IsPrefix(s, t) == Len(s) <= Len(t) /\ \A i \in 1..Len(s) : s[i] = t[i]

Entered(stage) == \E i \in 1..Len(run.stages) : run.stages[i] = stage

\* the process has returned this exit code
Ended(code) ==
    run.pc = "done" /\ Len(run.exits) > 0 /\ run.exits[Len(run.exits)] = code

\* what the fetch of this process gives
Fetched == fetch_feed(run.start, run.end, run.demo, run.source)

FetchFails == Fetched.err # "none" \/ Fetched.feed.status = "nokey"

\* the store and the CSV file are as the process found them
StoreAsFound == db = run.before.db

CsvAsFound == run.csv = run.before.csv

(***************************************************************************)
(* C21.  A feed run enters its stages in the order fetch, transform, CSV   *)
(* write, load, and enters a stage only when every earlier one succeeded.  *)
(* A fetch error or a feed without the grouping key ends the run with the  *)
(* fetch-stage exit code 3, no CSV write and no change of the store; a     *)
(* transform error or a CSV error ends it with the transform-stage exit    *)
(* code 4 and no change of the store; exit code 0 is returned only once    *)
(* the load has returned its row count.                                    *)
(***************************************************************************)
C21_StagesInOrder ==
    /\ IsPrefix(run.stages, StageOrder)
    /\ Entered("transform") => ~FetchFails /\ run.raw = Fetched.feed
    /\ Entered("csv") => run.frame = transform_to_dataframe(run.raw) /\ run.frame.err = "none"
    /\ Entered("load") => run.csv = [written |-> TRUE, frame |-> run.frame]
    /\ (Entered("fetch") /\ FetchFails) =>
          Ended(3) /\ run.stages = << "fetch" >> /\ CsvAsFound /\ StoreAsFound
    /\ (Entered("transform") /\ transform_to_dataframe(run.raw).err # "none") =>
          Ended(4) /\ run.stages = << "fetch", "transform" >> /\ CsvAsFound /\ StoreAsFound
    /\ (run.pc = "done" /\ run.stages = << "fetch", "transform", "csv" >>) =>
          Ended(4) /\ StoreAsFound
    /\ Ended(3) => run.stages = << "fetch" >>
    /\ Ended(4) => Entered("transform") /\ ~Entered("load") /\ StoreAsFound
    /\ Ended(0) => run.stages = StageOrder /\ run.written = << Len(run.frame.rows) >>

\* a second run whose CSV write failed half-way, on a table that holds the
\* rows of the run before it
C21_Witness ==
    /\ Ended(4)
    /\ run.stages = << "fetch", "transform", "csv" >>
    /\ Rows(db, "neows") # EmptyBag
    /\ run.csv = CutShort

\* the texts among the arguments that write a calendar date, and the
\* pairs of them whose first date is not after the second
DatesGiven ==
    {t \in {c.start : c \in CommandLines} \cup {c.end : c \in CommandLines} :
        IsCalendarDate(t)}

RangesGiven ==
    UNION {{<< s, e >> : e \in {t \in DatesGiven : NotAfter(DateOf(s), DateOf(t))}} :
              s \in DatesGiven}

\* the command line of the process asks for feed mode with input that is
\* not valid: a date missing, a text that writes no calendar date, or a
\* start after the end
InvalidInput ==
    /\ run.args.mode = "feed"
    /\ \/ run.args.start \in {None, << >>}
       \/ run.args.end \in {None, << >>}
       \/ << run.args.start, run.args.end >> \notin RangesGiven

(***************************************************************************)
(* C22.  A feed-mode command line with a missing --start or --end, a date  *)
(* that cannot be parsed, or a start after the end ends with the           *)
(* validation exit code 2 before any stage is entered: the fetch client    *)
(* is not called, and the CSV file and the store are as the process found  *)
(* them.                                                                   *)
(***************************************************************************)
C22_InvalidInputBeforeAnyIO ==
    (run.pc \notin {"off", "main"} /\ InvalidInput) =>
       /\ Ended(2)
       /\ run.stages = << >>
       /\ CsvAsFound
       /\ StoreAsFound

\* a start after the end, given once an earlier run has filled the table
\* and written the CSV
C22_Witness ==
    /\ Ended(2)
    /\ run.args.start = D5 /\ run.args.end = D1
    /\ run.exits = << 0, 2 >>
    /\ Rows(db, "neows") # EmptyBag
    /\ run.csv.written

(***************************************************************************)
(* C23.  A run whose feed flattens to no row at all ends as a failure and  *)
(* commits nothing: once it has ended, its exit code is not 0 and the CSV  *)
(* file and the store are as the run found them.                           *)
(***************************************************************************)
C23_EmptyFeedCommitsNothing ==
    (/\ run.pc = "done"
     /\ Entered("load")
     /\ extract_close_approaches(run.raw) = Records(<< >>)) =>
       /\ ~Ended(0)
       /\ CsvAsFound
       /\ StoreAsFound

(***************************************************************************)
(* C24.  When the CSV write of a run succeeded and its load then raises,   *)
(* the run ends with the load-stage exit code 5 and the CSV file holds     *)
(* the frame this run wrote; exit code 5 is returned in no other case.     *)
(***************************************************************************)
C24_CsvStaysAfterFailedLoad ==
    /\ (run.pc = "done" /\ Entered("load") /\ run.written = << >>) =>
          /\ Ended(5)
          /\ run.csv = [written |-> TRUE, frame |-> transform_to_dataframe(run.raw)]
    /\ Ended(5) => Entered("load") /\ run.written = << >>

\* the same approach twice in the feed: the insert raises on the key, and
\* the CSV with the two rows, which was not there before, is in place
C24_Witness ==
    /\ Ended(5)
    /\ Len(run.csv.frame.rows) = 2
    /\ ~CsvAsFound

(***************************************************************************)
(* What the properties below read of the live fetch.                       *)
(***************************************************************************)
\* the replies to the requests of the fetch, in the order sent
Sent == run.http.sent

\* the status is 429 or a 5xx
AsksToRetry(reply) == reply = 429 \/ reply \in 500..599

\* fetch_feed has returned or raised
FetchOver == run.pc \in {"done", "transform"}

(***************************************************************************)
(* C25.  A live fetch terminates.  It sends at most max_retries + 1        *)
(* requests, each request but the first after a 429 or 5xx reply to the    *)
(* one before, and when max_retries + 1 requests all got such a reply it   *)
(* raises RuntimeError, which the pipeline reports as a fetch-stage        *)
(* failure, exit code 3.                                                   *)
(***************************************************************************)
C25_LiveFetchTerminates ==
    /\ [](/\ Len(Sent) <= max_retries + 1
          /\ \A i \in 1..(Len(Sent) - 1) : AsksToRetry(Sent[i])
          /\ (/\ FetchOver
              /\ Len(Sent) = max_retries + 1
              /\ \A i \in 1..Len(Sent) : AsksToRetry(Sent[i])) =>
                /\ run.http.err = "RuntimeError"
                /\ Ended(3)
                /\ << "fetch-stage failure", 3 >> \in run.outcomes)
    /\ (run.pc = "request") ~> FetchOver

\* every request answered 429 or 503, the fetch given up
C25_Witness ==
    /\ Ended(3)
    /\ Len(Sent) = max_retries + 1
    /\ \E i \in 1..Len(Sent) : Sent[i] = 429
    /\ \E i \in 1..Len(Sent) : Sent[i] = 503
    /\ run.http.err = "RuntimeError"

(***************************************************************************)
(* C26.  A reply with a 4xx status other than 429 makes the live fetch     *)
(* raise at once, on whichever attempt it comes: it is the last request    *)
(* sent, no wait follows it (the waits made are those after the replies    *)
(* before it), and the fetch is over with HTTPError, reported as a         *)
(* fetch-stage failure.                                                    *)
(***************************************************************************)
C26_ClientErrorRaisesAtOnce ==
    \A i \in 1..Len(Sent) :
       (Sent[i] \in 400..499 /\ Sent[i] # 429) =>
          /\ i = Len(Sent)
          /\ Len(run.http.slept) = i - 1
          /\ run.http.err = "HTTPError"
          /\ Ended(3)

\* a 404 on the third attempt, after a 429 and a 503
C26_Witness ==
    /\ Sent = << 429, 503, 404 >>
    /\ run.http.slept = << 500, 1000 >>
    /\ Ended(3)

(***************************************************************************)
(* C27.  set_demo_mode_for_process(True) sets DEMO_MODE to "1" and         *)
(* set_live_mode_for_process(True) sets it to "0"; called with False       *)
(* either leaves the variable as it was, unset included.  fetch_feed goes  *)
(* by the variable as it is when it is called: set to "1" it takes the     *)
(* branch of the local sample, which sends no request and ends the fetch;  *)
(* set to "0" or unset it takes the HTTP client, which sends a request.    *)
(***************************************************************************)
C27_ModeFlagSetAndReadAtCall ==
    [][/\ call'.op = "set_demo_mode_for_process" =>
             run'.env = IF call'.enable THEN << "1" >> ELSE run.env
       /\ call'.op = "set_live_mode_for_process" =>
             run'.env = IF call'.enable THEN << "0" >> ELSE run.env
       /\ (run.pc = "fetch" /\ run.env = << "1" >>) => run'.pc = "sample"
       /\ (run.pc = "fetch" /\ run.env \in {<< "0" >>, Absent}) => run'.pc = "request"
       /\ run.pc = "sample" =>
             /\ run'.http.sent = << >>
             /\ run'.pc \in {"done", "transform"}
             /\ run'.pc = "transform" => run'.raw = run.source
       /\ run.pc = "request" => Len(run'.http.sent) = 1 + Len(run.http.sent)
      ]_vars

\* a process imported with the flag off has set demo mode, and the fetch
\* after that has returned the sample without a request
C27_Witness ==
    /\ ~run.imported
    /\ run.env = << "1" >>
    /\ run.demo
    /\ run.pc = "transform"
    /\ Sent = << >>

(***************************************************************************)
(* What the properties below read of two concurrent calls.                 *)
(***************************************************************************)
Neows == db.tables["neows"]

Copies(r) == CopiesIn(r, Neows.rows)

Window(p) == << call[p].start, call[p].end >>

Over(p) == call[p].pc \in {"returned", "raised"}

RowsOf(p) == {call[p].df.rows[i] : i \in 1..Len(call[p].df.rows)}

\* p inserted while the other call stood between its pre-delete and its
\* insert, and the other call is over too: both pre-deletes were committed
\* before either insert
DeletesThenInserts(p) == call[p].raced /\ Over(Other(p))

\* the batch of p has distinct keys, all within the window of p
WithinWindow(p) ==
    DistinctKeys(call[p].df) /\ \A r \in RowsOf(p) : InWindow(r, Window(p))

\* the call of p made alone on store s
Alone(s, p) ==
    load_dataframe_to_sqlite(s, call[p].df, "neows", "append", 0, TRUE,
                             call[p].start, call[p].end, TRUE)

\* the store after the call of p and then the call of the other, one after
\* the other, from the store the two found
InTurn(p) == Alone(Alone(run.before.db, p).store, Other(p)).store

(***************************************************************************)
(* C28.  Two concurrent load calls whose pre-deletes are both committed    *)
(* before either insert, each with a batch of distinct keys within its     *)
(* window, and a key that is in both batches: on a table without the primary key (as if_exists = "replace"   *)
(* leaves it) both calls return and the table holds that key twice,        *)
(* although either call after the other would leave it once; on the table  *)
(* of the schema the second insert raises IntegrityError and the key is    *)
(* held once.                                                              *)
(***************************************************************************)
C28_InterleavedLoadsDuplicateKey ==
    \A p \in Procs :
       (/\ DeletesThenInserts(p)
        /\ WithinWindow(p)
        /\ WithinWindow(Other(p))) =>
          \A r \in RowsOf(p) \cap RowsOf(Other(p)) :
                /\ ~Neows.pk =>
                      /\ call[p].pc = "returned"
                      /\ call[Other(p)].pc = "returned"
                      /\ Copies(r) = 2
                /\ Neows.pk =>
                      /\ call[p].pc = "returned"
                      /\ call[Other(p)].pc = "raised"
                      /\ call[Other(p)].err = "IntegrityError"
                      /\ Copies(r) = 1
                /\ CopiesIn(r, Rows(InTurn(p), "neows")) = 1
                /\ CopiesIn(r, Rows(InTurn(Other(p)), "neows")) = 1

\* both calls have returned and the table holds one key twice
C28_Witness ==
    /\ DeletesThenInserts(1)
    /\ WithinWindow(1) /\ WithinWindow(2)
    /\ ~Neows.pk
    /\ call[1].pc = "returned" /\ call[2].pc = "returned"
    /\ Window(1) = << D1, D5 >> /\ Window(2) = << D1, D1 >>
    /\ Copies(KeyedRow(D1)) = 2

(***************************************************************************)
(* C29.  Within one load call the pre-delete and the insert are committed  *)
(* apart.  The step of a pre-delete that succeeds takes the rows of the    *)
(* window out of the table for every reader and counts them; the step of   *)
(* an insert that fails ends the call with the error and leaves the store  *)
(* as it was just before, so what the pre-delete removed stays removed:    *)
(* with no other call at work the window is then empty.                    *)
(***************************************************************************)
C29_PreDeleteCommittedApart ==
    [][\A p \in Procs :
          /\ (call[p].pc = "delete" /\ call'[p].pc = "insert") =>
                /\ \A r \in RowU :
                      CopiesIn(r, Rows(db', "neows")) = Outside(Rows(db, "neows"), Window(p))[r]
                /\ call'[p].deleted =
                      BagSize(Rows(db, "neows")) - BagSize(Rows(db', "neows"))
          /\ (call[p].pc = "insert" /\ call'[p].pc = "raised") =>
                /\ db' = db
                /\ call'[p].err # "none"
                /\ call'[p].ret = 0
                /\ call[Other(p)].pc = "idle" =>
                      \A r \in RowU : InWindow(r, Window(p)) => CopiesIn(r, Rows(db', "neows")) = 0
      ]_vars

\* a call alone, whose batch holds one key twice: its pre-delete removed
\* the row of the table, its insert raised, and the table is empty
C29_Witness ==
    /\ call[1].pc = "raised"
    /\ call[1].err = "IntegrityError"
    /\ call[1].deleted = 1
    /\ call[2].pc = "idle"
    /\ Neows.rows = EmptyBag

(***************************************************************************)
(* C30.  Two concurrent load calls with the same window and batches of     *)
(* distinct keys that have no key in common, all within the window: when   *)
(* both pre-deletes are committed before either insert, both calls return  *)
(* and the table holds every row of both batches once, which is the store  *)
(* that neither call after the other produces.                             *)
(***************************************************************************)
C30_InterleavedLoadsNotSerializable ==
    \A p \in Procs :
       (/\ DeletesThenInserts(p)
        /\ Window(p) = Window(Other(p))
        /\ WithinWindow(p)
        /\ WithinWindow(Other(p))
        /\ RowsOf(p) \cap RowsOf(Other(p)) = {}) =>
          /\ call[p].pc = "returned"
          /\ call[Other(p)].pc = "returned"
          /\ \A r \in RowsOf(p) \cup RowsOf(Other(p)) : Copies(r) = 1
          /\ db # InTurn(p)
          /\ db # InTurn(Other(p))

\* the table of the schema holds the row of each batch
C30_Witness ==
    /\ DeletesThenInserts(2)
    /\ Neows.pk
    /\ call[1].df.rows = << KeyedRow(D1) >>
    /\ call[2].df.rows = << KeyedRow(D5) >>
    /\ Window(1) = << D1, D5 >> /\ Window(2) = << D1, D5 >>
    /\ Copies(KeyedRow(D1)) = 1 /\ Copies(KeyedRow(D5)) = 1

====
